---------------------------- MODULE Spec2Model ----------------------------
(***************************************************************************)
(* Timetable optimisation engine of Cpy-PP2: the ScheduledClass gene and   *)
(* the TimetableChromosome (models.py, genetic_algorithm.py), the          *)
(* constraint evaluator TimetableFitness.calculate, the placement helpers  *)
(* _get_random_timeslot and _attempt_find_empty_slot, the genetic          *)
(* operators and the generation loop of GeneticAlgorithm.run.              *)
(*                                                                         *)
(* Every random draw of the program (random.choice, random.randint,        *)
(* random.random, random.sample, random.shuffle) is a nondeterministic     *)
(* choice over all the values the draw can return.                         *)
(***************************************************************************)
EXTENDS Integers, Sequences, FiniteSets, TLC

(***************************************************************************)
(* Bounds of the model.                                                    *)
(***************************************************************************)
\* The model keeps the first NumDays entries of DAYS (the program has six).
NumDays == 2
\* population_size ranges over 1..MaxPopulationSize.
MaxPopulationSize == 6
\* generations ranges over 0..MaxGenerations.
MaxGenerations == 3

(***************************************************************************)
(* Program constants.                                                      *)
(***************************************************************************)
None == 0
DAYS == 1..NumDays
PERIODS_PER_DAY == 6
MAX_END_PERIOD_FOR_THEORY == 4
TOURNAMENT_SIZE == 5

PENALTY_HARD_COLLISION == 1000
PENALTY_HARD_FACULTY_BLOCKED == 500
PENALTY_HARD_LAB_CONTINUITY_INVALID == 500
PENALTY_HARD_THEORY_PERIOD_LIMIT == 750
PENALTY_SOFT_FACULTY_PREFERRED_NOT_MET == 10
PENALTY_SOFT_LAB_CROSSING_BREAK == 5
PENALTY_SOFT_SEMESTER_SCATTER == 2
PENALTY_SOFT_FACULTY_SCATTER == 3
PENALTY_SOFT_SINGLE_CLASS_DAY == 15

(***************************************************************************)
(* Generic helpers.                                                        *)
(***************************************************************************)
Range(s) == {s[k] : k \in DOMAIN s}

SetMax(S) == CHOOSE x \in S : \A y \in S : y <= x
SetMin(S) == CHOOSE x \in S : \A y \in S : x <= y

RECURSIVE SumAmounts(_)
SumAmounts(S) ==
    IF S = {} THEN 0
    ELSE LET e == CHOOSE x \in S : TRUE
         IN  e.amount + SumAmounts(S \ {e})

(***************************************************************************)
(* Domain model (models.py).                                               *)
(***************************************************************************)
\* ScheduledClass.__init__: the fields of a gene.
ScheduledClass(semester_id, course_id, faculty_ids, day, start_period, periods_count, is_lab) ==
    [semester_id |-> semester_id, course_id |-> course_id, faculty_ids |-> faculty_ids,
     day |-> day, start_period |-> start_period, periods_count |-> periods_count,
     is_lab |-> is_lab]

\* ScheduledClass.end_period
end_period(sc) == sc.start_period + sc.periods_count - 1

\* A copy that leaves the faculty list behind.
CopyClassWithoutFaculty(sc) ==
    ScheduledClass(sc.semester_id, sc.course_id, << >>,
                   sc.day, sc.start_period, sc.periods_count, sc.is_lab)

\* ScheduledClass.copy: a new gene with the same seven fields.
CopyClass(sc) ==
    ScheduledClass(sc.semester_id, sc.course_id, sc.faculty_ids,
                   sc.day, sc.start_period, sc.periods_count, sc.is_lab)

\* FacultyPreference.__init__
FacultyPreference(faculty_id, day, period_start, period_end, preference_type) ==
    [faculty_id |-> faculty_id, day |-> day, period_start |-> period_start,
     period_end |-> period_end, preference_type |-> preference_type]

\* TimetableChromosome.__init__: fitness starts at 0.0.
TimetableChromosome(scheduled_classes) ==
    [scheduled_classes |-> scheduled_classes, fitness |-> 0]

\* TimetableChromosome.copy: copies every gene; the fitness of the copy is
\* the constructor's 0.0, not the fitness of the original.
CopyChromosome(c) ==
    TimetableChromosome([k \in DOMAIN c.scheduled_classes |-> CopyClass(c.scheduled_classes[k])])

(***************************************************************************)
(* Constraint evaluator (TimetableFitness).                                *)
(***************************************************************************)
\* TimetableFitness.__init__: the (day, period) pairs of the preferences of
\* one kind of one faculty.
PreferenceSlots(all_data, faculty_id, blocked) ==
    UNION { {<<pref.day, p>> : p \in pref.period_start..pref.period_end} :
            pref \in {q \in all_data.faculty_preferences :
                        /\ q.faculty_id = faculty_id
                        /\ (q.preference_type = "blocked") = blocked} }

faculty_blocked_slots(all_data, faculty_id) == PreferenceSlots(all_data, faculty_id, TRUE)
faculty_preferred_slots(all_data, faculty_id) == PreferenceSlots(all_data, faculty_id, FALSE)

\* calculate, line 99: a gene with no day or no start period.
IsUnplaced(sc) == sc.day = None \/ sc.start_period = None

\* calculate, lines 104-106: the (day, period) pairs of a gene, in order.
OccupiedTimeslots(sc) ==
    [k \in 1..(end_period(sc) - sc.start_period + 1) |-> <<sc.day, sc.start_period + k - 1>>]

\* One penalty added to total_penalties: which rule, which gene (0 for the
\* per-day rules), a key (the position in faculty_ids, the (id, day) of a
\* per-day rule, the number of the H4 test), and how much.
Entry(code, gene, key, amount) ==
    [code |-> code, gene |-> gene, key |-> key, amount |-> amount]

\* The inner loops of H1 and H2 (lines 111-115, 119-123): scan the gene's
\* timeslots in order; on the first one already in the set stop (break)
\* without adding it or the later ones; otherwise add it and go on.
RECURSIVE ScanSlots(_, _, _, _)
ScanSlots(occupied, id, timeslots, k) ==
    IF k > Len(timeslots) THEN [hit |-> FALSE, occupied |-> occupied]
    ELSE IF <<id, timeslots[k]>> \in occupied THEN [hit |-> TRUE, occupied |-> occupied]
    ELSE ScanSlots(occupied \cup {<<id, timeslots[k]>>}, id, timeslots, k + 1)

\* H1 (lines 110-115).
CheckSemesterCollision(acc, sc, g) ==
    LET r == ScanSlots(acc.semester_occupied_slots, sc.semester_id, OccupiedTimeslots(sc), 1)
    IN  [acc EXCEPT
            !.semester_occupied_slots = r.occupied,
            !.total_penalties = @ + (IF r.hit THEN PENALTY_HARD_COLLISION ELSE 0),
            !.ledger = @ \cup (IF r.hit THEN {Entry("H1", g, << >>, PENALTY_HARD_COLLISION)} ELSE {})]

\* H2 (lines 117-123): one scan per entry of faculty_ids, in list order.
RECURSIVE CheckFacultyCollisions(_, _, _, _)
CheckFacultyCollisions(acc, sc, g, j) ==
    IF j > Len(sc.faculty_ids) THEN acc
    ELSE LET r == ScanSlots(acc.faculty_occupied_slots, sc.faculty_ids[j], OccupiedTimeslots(sc), 1)
             next == [acc EXCEPT
                        !.faculty_occupied_slots = r.occupied,
                        !.total_penalties = @ + (IF r.hit THEN PENALTY_HARD_COLLISION ELSE 0),
                        !.ledger = @ \cup (IF r.hit THEN {Entry("H2", g, <<j>>, PENALTY_HARD_COLLISION)} ELSE {})]
         IN  CheckFacultyCollisions(next, sc, g, j + 1)

\* A blocked-hours check priced as a soft preference.
CheckFacultyBlockedAsSoft(all_data, acc, sc, g) ==
    LET hits == {j \in DOMAIN sc.faculty_ids :
                   \E ts \in Range(OccupiedTimeslots(sc)) :
                       ts \in faculty_blocked_slots(all_data, sc.faculty_ids[j])}
    IN  [acc EXCEPT
            !.total_penalties = @ + Cardinality(hits) * PENALTY_SOFT_FACULTY_PREFERRED_NOT_MET,
            !.ledger = @ \cup {Entry("H3", g, <<j>>, PENALTY_SOFT_FACULTY_PREFERRED_NOT_MET) : j \in hits}]

\* H3 (lines 125-130): once per entry of faculty_ids with a blocked timeslot.
CheckFacultyBlocked(all_data, acc, sc, g) ==
    LET hits == {j \in DOMAIN sc.faculty_ids :
                   \E ts \in Range(OccupiedTimeslots(sc)) :
                       ts \in faculty_blocked_slots(all_data, sc.faculty_ids[j])}
    IN  [acc EXCEPT
            !.total_penalties = @ + Cardinality(hits) * PENALTY_HARD_FACULTY_BLOCKED,
            !.ledger = @ \cup {Entry("H3", g, <<j>>, PENALTY_HARD_FACULTY_BLOCKED) : j \in hits}]

\* H4 and H5 (lines 132-145).
CheckShape(acc, sc, g) ==
    LET h4a == sc.is_lab /\ sc.periods_count # 2
        h4b == sc.is_lab /\ end_period(sc) > PERIODS_PER_DAY
        h4c == /\ sc.is_lab
               /\ sc.periods_count > 1
               /\ end_period(sc) - sc.start_period + 1 # sc.periods_count
        h5  == ~sc.is_lab /\ end_period(sc) > 4
        new == (IF h4a THEN {Entry("H4", g, <<1>>, PENALTY_HARD_LAB_CONTINUITY_INVALID)} ELSE {})
               \cup (IF h4b THEN {Entry("H4", g, <<2>>, PENALTY_HARD_LAB_CONTINUITY_INVALID)} ELSE {})
               \cup (IF h4c THEN {Entry("H4", g, <<3>>, PENALTY_HARD_LAB_CONTINUITY_INVALID)} ELSE {})
               \cup (IF h5 THEN {Entry("H5", g, << >>, PENALTY_HARD_THEORY_PERIOD_LIMIT)} ELSE {})
    IN  [acc EXCEPT
            !.total_penalties = @ + SumAmounts(new),
            !.ledger = @ \cup new]

\* A preferred-hours check that skips a faculty with no preferred slot.
CheckPreferredIfDeclared(all_data, acc, sc, g) ==
    LET misses == {j \in DOMAIN sc.faculty_ids :
                     /\ faculty_preferred_slots(all_data, sc.faculty_ids[j]) # {}
                     /\ \E ts \in Range(OccupiedTimeslots(sc)) :
                            ts \notin faculty_preferred_slots(all_data, sc.faculty_ids[j])}
    IN  [acc EXCEPT
            !.total_penalties = @ + Cardinality(misses) * PENALTY_SOFT_FACULTY_PREFERRED_NOT_MET,
            !.ledger = @ \cup {Entry("S1", g, <<j>>, PENALTY_SOFT_FACULTY_PREFERRED_NOT_MET) : j \in misses}]

\* S1 (lines 149-157): once per entry of faculty_ids with a timeslot that is
\* not among that faculty's preferred slots.
CheckPreferred(all_data, acc, sc, g) ==
    LET misses == {j \in DOMAIN sc.faculty_ids :
                     \E ts \in Range(OccupiedTimeslots(sc)) :
                         ts \notin faculty_preferred_slots(all_data, sc.faculty_ids[j])}
    IN  [acc EXCEPT
            !.total_penalties = @ + Cardinality(misses) * PENALTY_SOFT_FACULTY_PREFERRED_NOT_MET,
            !.ledger = @ \cup {Entry("S1", g, <<j>>, PENALTY_SOFT_FACULTY_PREFERRED_NOT_MET) : j \in misses}]

\* A break check that takes the breaks to follow periods 3 and 5.
CheckLabBreakAfterOddPeriod(acc, sc, g) ==
    IF sc.is_lab /\ sc.periods_count = 2 /\ (sc.start_period = 3 \/ sc.start_period = 5)
    THEN [acc EXCEPT
            !.total_penalties = @ + PENALTY_SOFT_LAB_CROSSING_BREAK,
            !.ledger = @ \cup {Entry("S2", g, << >>, PENALTY_SOFT_LAB_CROSSING_BREAK)}]
    ELSE acc

\* S2 (lines 160-164).
CheckLabBreak(acc, sc, g) ==
    IF sc.is_lab /\ sc.periods_count = 2 /\ (sc.start_period = 2 \/ sc.start_period = 4)
    THEN [acc EXCEPT
            !.total_penalties = @ + PENALTY_SOFT_LAB_CROSSING_BREAK,
            !.ledger = @ \cup {Entry("S2", g, << >>, PENALTY_SOFT_LAB_CROSSING_BREAK)}]
    ELSE acc

\* Lines 166-172: every period of the gene is appended to the day schedule
\* of its semester and of every entry of faculty_ids. A schedule is kept as
\* the list of its <<id, day, period>> entries: 'periods' is the set of the
\* periods of an (id, day), 'total_hours' the number of its entries.
PopulateSchedules(acc, sc) ==
    LET periods == [k \in 1..(end_period(sc) - sc.start_period + 1) |-> sc.start_period + k - 1]
        sem == [k \in DOMAIN periods |-> <<sc.semester_id, sc.day, periods[k]>>]
        fac == [n \in 1..(Len(periods) * Len(sc.faculty_ids)) |->
                  <<sc.faculty_ids[((n - 1) % Len(sc.faculty_ids)) + 1], sc.day,
                    periods[((n - 1) \div Len(sc.faculty_ids)) + 1]>>]
    IN  [acc EXCEPT
            !.semester_day_schedule = @ \o sem,
            !.faculty_day_schedule = @ \o fac]

\* The body of the loop over the genes (lines 97-172) for the gene at index g.
EvaluateClass(all_data, acc, sc, g) ==
    IF IsUnplaced(sc)
    THEN [acc EXCEPT
            !.total_penalties = @ + PENALTY_HARD_COLLISION,
            !.ledger = @ \cup {Entry("H0", g, << >>, PENALTY_HARD_COLLISION)}]
    ELSE LET a1 == CheckSemesterCollision(acc, sc, g)
             a2 == CheckFacultyCollisions(a1, sc, g, 1)
             a3 == CheckFacultyBlocked(all_data, a2, sc, g)
             a4 == CheckShape(a3, sc, g)
             a5 == CheckPreferred(all_data, a4, sc, g)
             a6 == CheckLabBreak(a5, sc, g)
         IN  PopulateSchedules(a6, sc)

RECURSIVE EvaluateClasses(_, _, _, _)
EvaluateClasses(all_data, acc, classes, g) ==
    IF g > Len(classes) THEN acc
    ELSE EvaluateClasses(all_data, EvaluateClass(all_data, acc, classes[g], g), classes, g + 1)

\* Lines 177-185 and 191-199: the gaps of one (id, day) of a schedule.
ScheduleKeys(schedule) == {<<e[1], e[2]>> : e \in Range(schedule)}
SchedulePeriods(schedule, key) ==
    {e[3] : e \in {x \in Range(schedule) : x[1] = key[1] /\ x[2] = key[2]}}
ScheduleTotalHours(schedule, key) ==
    Cardinality({n \in DOMAIN schedule : schedule[n][1] = key[1] /\ schedule[n][2] = key[2]})
\* Gaps counted against one hour, whatever the hours scheduled.
ScheduleGapsIgnoringHours(schedule, key) ==
    LET periods == SchedulePeriods(schedule, key)
    IN  SetMax(periods) - SetMin(periods)

ScheduleGaps(schedule, key) ==
    LET periods == SchedulePeriods(schedule, key)
        span == SetMax(periods) - SetMin(periods) + 1
    IN  span - ScheduleTotalHours(schedule, key)

\* S3 (lines 174-185).
SemesterCompactness(acc) ==
    LET sched == acc.semester_day_schedule
        new == {Entry("S3", 0, key, ScheduleGaps(sched, key) * PENALTY_SOFT_SEMESTER_SCATTER) :
                  key \in {q \in ScheduleKeys(sched) : ScheduleGaps(sched, q) > 0}}
    IN  [acc EXCEPT !.total_penalties = @ + SumAmounts(new), !.ledger = @ \cup new]

\* A faculty compactness without the single-class-day rule.
FacultyCompactnessWithoutSingleClassDay(acc) ==
    LET sched == acc.faculty_day_schedule
        s4 == {Entry("S4", 0, key, ScheduleGaps(sched, key) * PENALTY_SOFT_FACULTY_SCATTER) :
                 key \in {q \in ScheduleKeys(sched) : ScheduleGaps(sched, q) > 0}}
    IN  [acc EXCEPT !.total_penalties = @ + SumAmounts(s4), !.ledger = @ \cup s4]

\* S4 and S5 (lines 187-203).
FacultyCompactness(acc) ==
    LET sched == acc.faculty_day_schedule
        s4 == {Entry("S4", 0, key, ScheduleGaps(sched, key) * PENALTY_SOFT_FACULTY_SCATTER) :
                 key \in {q \in ScheduleKeys(sched) : ScheduleGaps(sched, q) > 0}}
        s5 == {Entry("S5", 0, key, PENALTY_SOFT_SINGLE_CLASS_DAY) :
                 key \in {q \in ScheduleKeys(sched) : ScheduleTotalHours(sched, q) = 1}}
    IN  [acc EXCEPT !.total_penalties = @ + SumAmounts(s4) + SumAmounts(s5),
                    !.ledger = @ \cup s4 \cup s5]

\* Lines 83-94: the accumulators of one call of calculate.
EmptyAccumulators ==
    [total_penalties |-> 0,
     semester_occupied_slots |-> {},
     faculty_occupied_slots |-> {},
     semester_day_schedule |-> << >>,
     faculty_day_schedule |-> << >>,
     ledger |-> {}]

\* Lines 83-203: total_penalties (and the list of the penalties added).
Evaluate(all_data, classes) ==
    FacultyCompactness(SemesterCompactness(
        EvaluateClasses(all_data, EmptyAccumulators, classes, 1)))

\* A fitness that is the total itself.
FitnessOfNotNegated(total_penalties) == total_penalties

\* Line 207: the fitness is the negated total.
FitnessOf(total_penalties) == -total_penalties

\* TimetableFitness.calculate: stores the fitness in the chromosome.
calculate(all_data, c) ==
    [c EXCEPT !.fitness = FitnessOf(Evaluate(all_data, c.scheduled_classes).total_penalties)]

(***************************************************************************)
(* Placement oracle (GeneticAlgorithm._get_random_timeslot and             *)
(* GeneticAlgorithm._attempt_find_empty_slot).                             *)
(***************************************************************************)
\* _get_random_timeslot, lines 253-258 and 263-264: the ValueError cases.
RandomTimeslotRaises(periods_count, is_lab) ==
    IF ~is_lab
    THEN \/ periods_count > MAX_END_PERIOD_FOR_THEORY
         \/ MAX_END_PERIOD_FOR_THEORY - periods_count + 1 < 1
    ELSE PERIODS_PER_DAY - periods_count + 1 < 1

\* A largest start period that gives a theory class the whole day.
MaxStartPeriodOfDay(periods_count, is_lab) ==
    PERIODS_PER_DAY - periods_count + 1

\* _get_random_timeslot, lines 250-251 and 262: the largest start period.
MaxStartPeriod(periods_count, is_lab) ==
    IF ~is_lab
    THEN MAX_END_PERIOD_FOR_THEORY - periods_count + 1
    ELSE PERIODS_PER_DAY - periods_count + 1

\* Random timeslots that start at any period of the day.
RandomTimeslotsAnyStart(periods_count, is_lab) ==
    DAYS \X (1..PERIODS_PER_DAY)

\* _get_random_timeslot: every (day, start_period) the two draws can give.
RandomTimeslots(periods_count, is_lab) ==
    DAYS \X (1..MaxStartPeriod(periods_count, is_lab))

\* _attempt_find_empty_slot, lines 275-287: the (id, (day, period)) pairs
\* occupied by the placed genes other than the one at index g.
TempSemesterOccupied(classes, g) ==
    UNION { {<<classes[k].semester_id, <<classes[k].day, p>>>> :
                p \in classes[k].start_period..end_period(classes[k])} :
            k \in {n \in DOMAIN classes : n # g /\ ~IsUnplaced(classes[n])} }

TempFacultyOccupied(classes, g) ==
    UNION { {<<fac_id, <<classes[k].day, p>>>> :
                p \in classes[k].start_period..end_period(classes[k]),
                fac_id \in Range(classes[k].faculty_ids)} :
            k \in {n \in DOMAIN classes : n # g /\ ~IsUnplaced(classes[n])} }

\* Possible slots that leave the blocked hours of the faculty out of
\* account.
PossibleSlotsIgnoringBlocked(all_data, classes, g) ==
    LET class_to_place == classes[g]
        max_end_period_for_type ==
            IF ~class_to_place.is_lab THEN 4 ELSE PERIODS_PER_DAY
        sem_occ == TempSemesterOccupied(classes, g)
        fac_occ == TempFacultyOccupied(classes, g)
        IsValid(day, start_p_candidate) ==
            /\ ~(start_p_candidate + class_to_place.periods_count - 1 > max_end_period_for_type)
            /\ \A p_offset \in 0..(class_to_place.periods_count - 1) :
                  LET timeslot == <<day, start_p_candidate + p_offset>>
                  IN  /\ <<class_to_place.semester_id, timeslot>> \notin sem_occ
                      /\ \A fac_id \in Range(class_to_place.faculty_ids) :
                            <<fac_id, timeslot>> \notin fac_occ
    IN  {slot \in DAYS \X (1..(max_end_period_for_type - class_to_place.periods_count + 1)) :
            IsValid(slot[1], slot[2])}

\* _attempt_find_empty_slot, lines 289-326: possible_slots.
PossibleSlots(all_data, classes, g) ==
    LET class_to_place == classes[g]
        max_end_period_for_type ==
            IF ~class_to_place.is_lab THEN 4 ELSE PERIODS_PER_DAY
        sem_occ == TempSemesterOccupied(classes, g)
        fac_occ == TempFacultyOccupied(classes, g)
        IsValid(day, start_p_candidate) ==
            /\ ~(start_p_candidate + class_to_place.periods_count - 1 > max_end_period_for_type)
            /\ \A p_offset \in 0..(class_to_place.periods_count - 1) :
                  LET timeslot == <<day, start_p_candidate + p_offset>>
                  IN  /\ <<class_to_place.semester_id, timeslot>> \notin sem_occ
                      /\ \A fac_id \in Range(class_to_place.faculty_ids) :
                            /\ <<fac_id, timeslot>> \notin fac_occ
                            /\ timeslot \notin faculty_blocked_slots(all_data, fac_id)
    IN  {slot \in DAYS \X (1..(max_end_period_for_type - class_to_place.periods_count + 1)) :
            IsValid(slot[1], slot[2])}

\* _attempt_find_empty_slot, lines 328-333: after the shuffle any possible
\* slot can be first; (None, None) when there is none.
FindEmptySlotResults(all_data, classes, g) ==
    IF PossibleSlots(all_data, classes, g) = {}
    THEN {<<None, None>>}
    ELSE PossibleSlots(all_data, classes, g)

\* A placement that writes the day and forgets the start period.
PlaceDayOnly(classes, g, slot) ==
    [classes EXCEPT ![g].day = slot[1]]

\* The writes "day = ..., start_period = ..." to the gene at index g.
Place(classes, g, slot) ==
    [classes EXCEPT ![g].day = slot[1], ![g].start_period = slot[2]]

(***************************************************************************)
(* Genetic operators (GeneticAlgorithm).                                   *)
(***************************************************************************)
\* create_individual raises when _get_random_timeslot raises for a gene.
CreateIndividualRaises(template) ==
    \E k \in DOMAIN template :
        RandomTimeslotRaises(template[k].periods_count, template[k].is_lab)

\* create_individual: a copy of every template gene, placed at a random
\* timeslot of its type; every chromosome the draws can give.
CreateIndividuals(template) ==
    {TimetableChromosome([k \in DOMAIN template |-> Place(<<CopyClass(template[k])>>, 1, f[k])[1]]) :
        f \in {h \in [DOMAIN template -> DAYS \X (1..PERIODS_PER_DAY)] :
                 \A k \in DOMAIN template :
                     h[k] \in RandomTimeslots(template[k].periods_count, template[k].is_lab)}}

\* initialize_population, lines 353-355: one individual, created and scored.
ScoredIndividuals(data, template) ==
    {calculate(data, c) : c \in CreateIndividuals(template)}

\* selection, line 363: random.sample(population, 5) raises ValueError when
\* the population has fewer than 5 members.
SelectionRaises(pop) == Len(pop) < TOURNAMENT_SIZE

\* selection, lines 363-364: the chromosomes that can win one tournament.
\* random.sample draws 5 distinct positions in a random order and max
\* returns the first of the fittest, so any fittest member of the sample
\* can be the winner.
TournamentWinners(pop) ==
    {pop[w] : w \in {k \in DOMAIN pop :
        \E sample \in SUBSET DOMAIN pop :
            /\ Cardinality(sample) = TOURNAMENT_SIZE
            /\ k \in sample
            /\ \A n \in sample : pop[n].fitness <= pop[k].fitness}}

\* selection: one winner per tournament, len(population) = population_size
\* tournaments.
Selections(pop, size) == [1..size -> TournamentWinners(pop)]

\* random.shuffle(selected_parents): every reordering of the list, that is
\* every list of the same length holding each chromosome as many times.
Shuffles(list) ==
    {l \in [DOMAIN list -> Range(list)] :
        \A c \in Range(list) :
            Cardinality({k \in DOMAIN list : l[k] = c}) =
            Cardinality({k \in DOMAIN list : list[k] = c})}

\* max(population, key=fitness): the first chromosome of the largest fitness.
MaxByFitness(pop) ==
    pop[SetMin({k \in DOMAIN pop : \A n \in DOMAIN pop : pop[n].fitness <= pop[k].fitness})]

\* crossover, line 374: random.randint(1, L - 1) raises ValueError when the
\* template has a single gene.
CrossoverPoints(template) == 1..(Len(template) - 1)

\* A crossover that counts the crossover point from 1: the genes at the
\* 1-based indices crossover_point..L take the other parent's placement.
CrossoverAtOneBased(parent1, parent2, template, crossover_point) ==
    LET swapped == {k \in 1..Len(template) : k >= crossover_point}
        Take(child, other) ==
            [child EXCEPT !.scheduled_classes =
                [k \in DOMAIN @ |->
                    IF k \in swapped
                    THEN [@[k] EXCEPT !.day = other.scheduled_classes[k].day,
                                      !.start_period = other.scheduled_classes[k].start_period]
                    ELSE @[k]]]
    IN  <<Take(CopyChromosome(parent1), parent2), Take(CopyChromosome(parent2), parent1)>>

\* crossover, lines 371-384, for one crossover point: the genes at the
\* 0-based indices crossover_point..L-1 take the other parent's placement.
CrossoverAt(parent1, parent2, template, crossover_point) ==
    LET swapped == {k \in 1..Len(template) : k - 1 >= crossover_point}
        Take(child, other) ==
            [child EXCEPT !.scheduled_classes =
                [k \in DOMAIN @ |->
                    IF k \in swapped
                    THEN [@[k] EXCEPT !.day = other.scheduled_classes[k].day,
                                      !.start_period = other.scheduled_classes[k].start_period]
                    ELSE @[k]]]
    IN  <<Take(CopyChromosome(parent1), parent2), Take(CopyChromosome(parent2), parent1)>>

\* crossover, line 386: no recombination.
CrossoverCopies(parent1, parent2) ==
    <<CopyChromosome(parent1), CopyChromosome(parent2)>>

\* A mutation whose _attempt_find_empty_slot does not see the genes the
\* pass has already gone through.
RECURSIVE MutateFromNotSeeingEarlierGenes(_, _, _, _)
MutateFromNotSeeingEarlierGenes(data, classes, g, perform_smart_mutation) ==
    IF g > Len(classes) THEN {classes}
    ELSE LET sc == classes[g]
             later == [n \in DOMAIN classes |->
                         IF n < g THEN [classes[n] EXCEPT !.day = None, !.start_period = None]
                         ELSE classes[n]]
             found == FindEmptySlotResults(data, later, g)
             slots == IF perform_smart_mutation /\ found # {<<None, None>>}
                      THEN found
                      ELSE RandomTimeslots(sc.periods_count, sc.is_lab)
             after == {classes} \cup {Place(classes, g, slot) : slot \in slots}
         IN  UNION {MutateFromNotSeeingEarlierGenes(data, next, g + 1, perform_smart_mutation) :
                       next \in after}

\* mutation, lines 394-410, from the gene at index g on: the lists of genes
\* the draws can give. A gene is left alone or re-placed; in smart mode it
\* takes a slot of _attempt_find_empty_slot computed on the list as it is
\* now, or a random timeslot when there is none.
RECURSIVE MutateFrom(_, _, _, _)
MutateFrom(data, classes, g, perform_smart_mutation) ==
    IF g > Len(classes) THEN {classes}
    ELSE LET sc == classes[g]
             found == FindEmptySlotResults(data, classes, g)
             slots == IF perform_smart_mutation /\ found # {<<None, None>>}
                      THEN found
                      ELSE RandomTimeslots(sc.periods_count, sc.is_lab)
             after == {classes} \cup {Place(classes, g, slot) : slot \in slots}
         IN  UNION {MutateFrom(data, next, g + 1, perform_smart_mutation) : next \in after}

\* mutation: the smart mode is drawn once for the chromosome (line 392).
Mutations(data, c) ==
    {[c EXCEPT !.scheduled_classes = classes] :
        classes \in MutateFrom(data, c.scheduled_classes, 1, TRUE)
                    \cup MutateFrom(data, c.scheduled_classes, 1, FALSE)}

(***************************************************************************)
(* State.                                                                  *)
(***************************************************************************)
VARIABLES
    pc,                 \* where the running operation stands
    all_data,           \* the problem instance: semesters, faculty, preferences
    classes_to_schedule_template,   \* the gene templates, unplaced
    population_size,    \* configuration
    generations,        \* configuration
    population,         \* list of chromosomes
    best_individual,    \* the best-seen chromosome of run
    gen,                \* the loop variable of run
    selected_parents,   \* the shuffled parents of the generation
    next_population,    \* the children appended so far
    i,                  \* the loop variable of the pairing loop (0-based)
    p2_is_p1,           \* the last second parent was drawn from the first one's position
    progress_calls,     \* the arguments of every progress_callback call
    highest_scored,     \* history: the largest score calculate has returned
    class_to_place,     \* index of the gene a placement helper was called on
    saved_timetables,   \* the rows of the table saved_timetables
    loaded,             \* what load_saved_timetable_data returned last
    fitness_calculator, \* the two slot maps of the evaluator, where they are followed
    heap,               \* where object identity is followed: the gene objects of every chromosome object
    written,            \* the gene objects whose day or start_period the last step assigned
    perform_smart_mutation  \* the smart-mode draw of the last mutation called on its own

vars == <<pc, all_data, classes_to_schedule_template, population_size, generations,
          population, best_individual, gen, selected_parents, next_population,
          i, p2_is_p1, progress_calls, highest_scored, class_to_place,
          saved_timetables, loaded, fitness_calculator, heap, written,
          perform_smart_mutation>>

(***************************************************************************)
(* Problem instances.                                                      *)
(***************************************************************************)
\* database.get_classes_to_schedule, line 560: a gene of a theory mapping.
TheoryClass(semester_id, course_id, faculty_id) ==
    ScheduledClass(semester_id, course_id, <<faculty_id>>, None, None, 1, FALSE)

\* database.get_classes_to_schedule, line 570: the gene of a lab mapping.
LabClass(semester_id, course_id, faculty_id_1, faculty_id_2) ==
    ScheduledClass(semester_id, course_id, <<faculty_id_1, faculty_id_2>>, None, None, 2, TRUE)

Instance(semesters, faculty, faculty_preferences, classes) ==
    [all_data |-> [semesters |-> semesters, faculty |-> faculty,
                   faculty_preferences |-> faculty_preferences],
     classes |-> classes]

\* A 2 hours/week theory course and a lab of the same semester; faculty 1
\* prefers the morning of day 1, faculty 2 prefers periods 3-4 of day 1 and
\* is blocked on periods 1-2 of day 2.
InstanceTheoryAndLab ==
    Instance({1}, {1, 2},
             {FacultyPreference(1, 1, 1, 4, "preferred"),
              FacultyPreference(2, 1, 3, 4, "preferred"),
              FacultyPreference(2, 2, 1, 2, "blocked")},
             <<TheoryClass(1, 1, 1), TheoryClass(1, 1, 1), LabClass(1, 2, 1, 2)>>)

\* A lab mapping whose two faculty ids are the same faculty (the schema of
\* lab_mappings has no constraint faculty_id_1 <> faculty_id_2).
InstanceLabSameFaculty ==
    Instance({1}, {1},
             {FacultyPreference(1, 1, 1, 2, "preferred")},
             <<LabClass(1, 2, 1, 1)>>)

\* Two semesters sharing faculty 1; no preferences at all.
InstanceTwoSemesters ==
    Instance({1, 2}, {1, 2}, {},
             <<TheoryClass(1, 1, 1), TheoryClass(2, 3, 1), LabClass(2, 2, 2, 1)>>)

\* One theory session of four periods (it can only start at period 1);
\* faculty 1 is blocked on periods 1-2 of day 1 and has no preferred slot.
InstanceBlockedDay ==
    Instance({1}, {1},
             {FacultyPreference(1, 1, 1, 2, "blocked")},
             <<ScheduledClass(1, 1, <<1>>, None, None, 4, FALSE)>>)

\* The same session; faculty 1 prefers periods 1-4 of day 2.
InstancePreferredDay ==
    Instance({1}, {1},
             {FacultyPreference(1, 2, 1, 4, "preferred")},
             <<ScheduledClass(1, 1, <<1>>, None, None, 4, FALSE)>>)

\* A theory session of five periods: more than the four a theory class may
\* take.
InstanceOversizedTheory ==
    Instance({1}, {1}, {},
             <<ScheduledClass(1, 1, <<1>>, None, None, 5, FALSE)>>)

\* One theory mapping of 1 hour/week: one faculty, no preferences.
InstanceSingleTheory ==
    Instance({1}, {1}, {}, <<TheoryClass(1, 1, 1)>>)

\* One theory mapping of 2 hours/week (two one-period genes of the same
\* semester and faculty), no preferences.
InstanceTwoTheory ==
    Instance({1}, {1}, {}, <<TheoryClass(1, 1, 1), TheoryClass(1, 1, 1)>>)

\* One lab; its first faculty is blocked on day 1 (Monday), periods 1-6,
\* its second faculty has no preference.
InstanceLabBlockedMonday ==
    Instance({1}, {1, 2},
             {FacultyPreference(1, 1, 1, PERIODS_PER_DAY, "blocked")},
             <<LabClass(1, 2, 1, 2)>>)

\* One theory class whose faculty is blocked at every period of every day.
InstanceAlwaysBlocked ==
    Instance({1}, {1},
             {FacultyPreference(1, d, 1, PERIODS_PER_DAY, "blocked") : d \in DAYS},
             <<TheoryClass(1, 1, 1)>>)

\* A lab between two theory sessions, all of semester 1 and each with
\* faculty of its own; no preferences.
InstanceLabBetweenTheory ==
    Instance({1}, {1, 2, 3, 4}, {},
             <<TheoryClass(1, 1, 1), LabClass(1, 2, 2, 3), TheoryClass(1, 3, 4)>>)

(***************************************************************************)
(* GeneticAlgorithm.run, one action per step of the method.                *)
(***************************************************************************)
\* The evaluator's score of a chromosome, whatever its cached fitness.
Score(c) == calculate(all_data, c).fitness

\* The history of the scores calculate returned: the largest so far.
Record(highest, scores) ==
    LET all == scores \cup Range(highest) IN IF all = {} THEN << >> ELSE <<SetMax(all)>>

\* The configurations explored: (instance, population_size, generations).
\* Population sizes below the tournament size and from the tournament size
\* (odd) up to MaxPopulationSize; the largest population runs one
\* generation, the others none or MaxGenerations.
PopulationSizes == {1, TOURNAMENT_SIZE - 1} \cup (TOURNAMENT_SIZE..MaxPopulationSize)

Configurations ==
    {InstanceBlockedDay, InstancePreferredDay, InstanceOversizedTheory}
        \X (((PopulationSizes \ {MaxPopulationSize}) \X {0, MaxGenerations})
             \cup ({MaxPopulationSize} \X {1}))

\* The state when run is entered: the constructor has stored the template,
\* the instance and the configuration (lines 219-237).
Init ==
    /\ pc = "ready"
    /\ \E cfg \in Configurations :
          /\ all_data = cfg[1].all_data
          /\ classes_to_schedule_template = cfg[1].classes
          /\ population_size = cfg[2][1]
          /\ generations = cfg[2][2]
    /\ population = << >>
    /\ best_individual = None
    /\ gen = 0
    /\ selected_parents = << >>
    /\ next_population = << >>
    /\ i = 0
    /\ p2_is_p1 = FALSE
    /\ progress_calls = << >>
    /\ highest_scored = << >>
    /\ class_to_place = 0
    /\ saved_timetables = << >>
    /\ loaded = << >>
    /\ fitness_calculator = << >>
    /\ heap = << >>
    /\ written = {}
    /\ perform_smart_mutation = FALSE

\* Lines 416-417: initialize_population and the first best_individual (the
\* fittest member of the population itself, not a copy).
InitializePopulation ==
    /\ pc = "ready"
    /\ ~CreateIndividualRaises(classes_to_schedule_template)
    /\ \E pop \in [1..population_size -> ScoredIndividuals(all_data, classes_to_schedule_template)] :
          /\ population' = pop
          /\ best_individual' = MaxByFitness(pop)
          /\ highest_scored' = Record(highest_scored, {pop[k].fitness : k \in DOMAIN pop})
    /\ pc' = "loop"
    /\ UNCHANGED <<all_data, classes_to_schedule_template, population_size, generations,
                   gen, selected_parents, next_population, i, p2_is_p1, progress_calls,
                   class_to_place,
                   saved_timetables, loaded,
                   fitness_calculator,
                   heap, written,
                   perform_smart_mutation>>

\* Line 416 when _get_random_timeslot raises ValueError for a template gene.
InitializePopulationRaises ==
    /\ pc = "ready"
    /\ CreateIndividualRaises(classes_to_schedule_template)
    /\ pc' = "raised"
    /\ UNCHANGED <<all_data, classes_to_schedule_template, population_size, generations,
                   population, best_individual, gen, selected_parents, next_population,
                   i, p2_is_p1, progress_calls, highest_scored, class_to_place,
                   saved_timetables, loaded,
                   fitness_calculator,
                   heap, written,
                   perform_smart_mutation>>

\* Lines 421-426: every member is scored again, and the fittest replaces
\* best_individual, as a copy, when its fitness is larger than the fitness
\* field of best_individual.
Rescored(pop) == [k \in DOMAIN pop |-> calculate(all_data, pop[k])]

UpdatedBest(best, pop) ==
    LET current_best_in_generation == MaxByFitness(pop)
    IN  IF current_best_in_generation.fitness > best.fitness
        THEN CopyChromosome(current_best_in_generation)
        ELSE best

\* Lines 419-428: the head of one generation, up to the selection.
BeginGeneration ==
    /\ pc = "loop"
    /\ gen < generations
    /\ ~SelectionRaises(population)
    /\ population' = Rescored(population)
    /\ best_individual' = UpdatedBest(best_individual, Rescored(population))
    /\ selected_parents' \in Selections(Rescored(population), population_size)
    /\ pc' = "selected"
    /\ UNCHANGED <<all_data, classes_to_schedule_template, population_size, generations,
                   gen, next_population, i, p2_is_p1, progress_calls, highest_scored,
                   class_to_place,
                   saved_timetables, loaded,
                   fitness_calculator,
                   heap, written,
                   perform_smart_mutation>>

\* An exception leaves run: its locals are gone.
Raised ==
    /\ pc' = "raised"
    /\ population' = << >>
    /\ best_individual' = None
    /\ selected_parents' = << >>
    /\ next_population' = << >>
    /\ i' = 0
    /\ p2_is_p1' = FALSE
    /\ UNCHANGED <<all_data, classes_to_schedule_template, population_size, generations,
                   gen, progress_calls, highest_scored, class_to_place,
                   saved_timetables, loaded,
                   fitness_calculator,
                   heap, written,
                   perform_smart_mutation>>

\* Lines 419-428 when random.sample raises ValueError in selection.
BeginGenerationRaises ==
    /\ pc = "loop"
    /\ gen < generations
    /\ SelectionRaises(population)
    /\ Raised

\* Lines 430-431.
ShuffleParents ==
    /\ pc = "selected"
    /\ selected_parents' \in Shuffles(selected_parents)
    /\ next_population' = << >>
    /\ i' = 0
    /\ p2_is_p1' = FALSE
    /\ pc' = "pairs"
    /\ UNCHANGED <<all_data, classes_to_schedule_template, population_size, generations,
                   population, best_individual, gen, progress_calls, highest_scored,
                   class_to_place,
                   saved_timetables, loaded,
                   fitness_calculator,
                   heap, written,
                   perform_smart_mutation>>

\* Line 435: the positions the second parent can come from: the next one,
\* or, for the last parent of an odd list, any position random.choice draws.
SecondParentPositions ==
    IF i + 1 < Len(selected_parents) THEN {i + 2} ELSE DOMAIN selected_parents

\* A pairing step that appends both children whatever the length.
MateChildrenAppendingBoth(children) ==
    LET scored1 == {calculate(all_data, m) : m \in Mutations(all_data, children[1])}
        scored2 == {calculate(all_data, m) : m \in Mutations(all_data, children[2])}
    IN  \E child1 \in scored1 : \E child2 \in scored2 :
            /\ next_population' = next_population \o <<child1, child2>>
            /\ highest_scored' = Record(highest_scored, {child1.fitness, child2.fitness})

\* Lines 439-447: both children are mutated and scored; the second is
\* appended only while the next population is short of population_size.
MateChildren(children) ==
    LET scored1 == {calculate(all_data, m) : m \in Mutations(all_data, children[1])}
        scored2 == {calculate(all_data, m) : m \in Mutations(all_data, children[2])}
    IN  \E child1 \in scored1 : \E child2 \in scored2 :
            /\ next_population' =
                  IF Len(next_population) + 1 < population_size
                  THEN next_population \o <<child1, child2>>
                  ELSE Append(next_population, child1)
            /\ highest_scored' = Record(highest_scored, {child1.fitness, child2.fitness})

\* Lines 433-447: one iteration of the pairing loop.
MatePair ==
    /\ pc = "pairs"
    /\ i < Len(selected_parents)
    /\ \E pos \in SecondParentPositions :
          LET p1 == selected_parents[i + 1]
              p2 == selected_parents[pos]
          IN  /\ p2_is_p1' = (pos = i + 1)
              /\ \/ \E crossover_point \in CrossoverPoints(classes_to_schedule_template) :
                       MateChildren(CrossoverAt(p1, p2, classes_to_schedule_template, crossover_point))
                 \/ MateChildren(CrossoverCopies(p1, p2))
    /\ i' = i + 2
    /\ UNCHANGED <<pc, all_data, classes_to_schedule_template, population_size, generations,
                   population, best_individual, gen, selected_parents, progress_calls,
                   class_to_place,
                   saved_timetables, loaded,
                   fitness_calculator,
                   heap, written,
                   perform_smart_mutation>>

\* Line 374 when the recombination is drawn and random.randint(1, 0) raises
\* ValueError: the template has one gene.
MatePairRaises ==
    /\ pc = "pairs"
    /\ i < Len(selected_parents)
    /\ CrossoverPoints(classes_to_schedule_template) = {}
    /\ Raised

\* The arguments of one progress_callback call (line 452), with the
\* evaluator's score of best_individual at that moment beside them.
ProgressCall(generation_index, best) ==
    [generation_index |-> generation_index,
     total_generations |-> generations,
     current_best_score |-> best.fitness,
     evaluator_score |-> Score(best)]

\* Lines 449-457: the tail of one generation: the children replace the
\* population, the progress sink is called, and the loop is left when the
\* fitness field of best_individual is >= 0. The locals of the pairing loop
\* are dead from here to their next assignment and are cleared.
EndGeneration ==
    /\ pc = "pairs"
    /\ i >= Len(selected_parents)
    /\ population' = next_population
    /\ progress_calls' = Append(progress_calls, ProgressCall(gen + 1, best_individual))
    /\ gen' = gen + 1
    /\ pc' = IF best_individual.fitness >= 0 THEN "break" ELSE "loop"
    /\ selected_parents' = << >>
    /\ next_population' = << >>
    /\ i' = 0
    /\ p2_is_p1' = FALSE
    /\ UNCHANGED <<all_data, classes_to_schedule_template, population_size, generations,
                   best_individual, highest_scored, class_to_place,
                   saved_timetables, loaded,
                   fitness_calculator,
                   heap, written,
                   perform_smart_mutation>>

\* Lines 459-460: after the loop, best_individual is scored and returned.
Return ==
    /\ \/ pc = "loop" /\ gen >= generations
       \/ pc = "break"
    /\ best_individual' = calculate(all_data, best_individual)
    /\ pc' = "done"
    /\ UNCHANGED <<all_data, classes_to_schedule_template, population_size, generations,
                   population, gen, selected_parents, next_population, i, p2_is_p1,
                   progress_calls, highest_scored, class_to_place,
                   saved_timetables, loaded,
                   fitness_calculator,
                   heap, written,
                   perform_smart_mutation>>

Next ==
    \/ InitializePopulation
    \/ InitializePopulationRaises
    \/ BeginGeneration
    \/ BeginGenerationRaises
    \/ ShuffleParents
    \/ MatePair
    \/ MatePairRaises
    \/ EndGeneration
    \/ Return

Spec == Init /\ [][Next]_vars

(***************************************************************************)
(* Claims about run (Spec).                                                *)
(***************************************************************************)
\* The entry preconditions of run: a non-empty gene list, at least one
\* semester and one faculty, every periods_count within its type bound,
\* population_size >= 1 and generations >= 0.
WithinTypeBound(sc) ==
    /\ sc.periods_count >= 1
    /\ sc.periods_count <= IF sc.is_lab THEN PERIODS_PER_DAY ELSE MAX_END_PERIOD_FOR_THEORY

EntryPreconditions ==
    /\ Len(classes_to_schedule_template) >= 1
    /\ all_data.semesters # {}
    /\ all_data.faculty # {}
    /\ \A k \in DOMAIN classes_to_schedule_template :
          WithinTypeBound(classes_to_schedule_template[k])
    /\ population_size >= 1
    /\ generations >= 0

\* C1: the chromosome run returns is the best ever encountered: its score
\* is at least the score of every chromosome scored during the run, the
\* initial population and the children of every generation, the last
\* generation included.
C1_ReturnedIsBestEverScored ==
    pc = "done" => \A s \in Range(highest_scored) : best_individual.fitness >= s

\* C2: run leaves the generation loop before completing all generations
\* only if the evaluator's score of the best-seen chromosome is 0.
C2_EarlyStopOnlyAtTrueScoreZero ==
    (pc = "break" /\ gen < generations) => Score(best_individual) = 0

\* C3: once the entry preconditions hold, run never raises.
C3_RunNeverRaises ==
    EntryPreconditions => pc # "raised"

\* C4: the progress sink is called exactly once after each completed
\* generation g = 1, 2, ... with (g, generations, s) where s is the
\* evaluator's score of the best-seen chromosome at that moment, and the
\* reported s never decreases from one call to the next.
C4_ProgressReportsEvaluatorScore ==
    /\ Len(progress_calls) = gen
    /\ \A k \in DOMAIN progress_calls :
          /\ progress_calls[k].generation_index = k
          /\ progress_calls[k].total_generations = generations
          /\ progress_calls[k].current_best_score = progress_calls[k].evaluator_score
    /\ \A k \in DOMAIN progress_calls :
          k > 1 => progress_calls[k - 1].current_best_score
                       <= progress_calls[k].current_best_score

\* C5: run always terminates: for every valid instance and configuration
\* it executes at most `generations` generations and then returns a
\* chromosome: run is at a step of at most the generations-th generation,
\* or it has returned a chromosome; it never ends any other way.
RunningPositions == {"ready", "loop", "selected", "pairs", "break"}

C5_RunTerminatesByReturning ==
    EntryPreconditions =>
        /\ gen <= generations
        /\ Len(progress_calls) <= generations
        /\ \/ pc \in RunningPositions
           \/ /\ pc = "done"
              /\ Len(best_individual.scheduled_classes) = Len(classes_to_schedule_template)

(***************************************************************************)
(* EntrySpec: the constructor of GeneticAlgorithm and the entry of run, on  *)
(* instances that are empty or under-specified and on instances that are   *)
(* not.                                                                    *)
(***************************************************************************)
\* No classes to schedule.
InstanceNoClasses == Instance({1}, {1}, {}, << >>)

\* A class and a faculty, no semester.
InstanceNoSemesters == Instance({}, {1}, {}, <<TheoryClass(1, 1, 1)>>)

\* A class and a semester, no faculty.
InstanceNoFaculty == Instance({1}, {}, {}, <<TheoryClass(1, 1, 1)>>)

\* A theory class followed by a lab session of seven periods: more than
\* the six of a day.
InstanceOversizedLab ==
    Instance({1}, {1, 2}, {},
             <<TheoryClass(1, 1, 1), ScheduledClass(1, 2, <<1, 2>>, None, None, 7, TRUE)>>)

\* The populations of one and of two individuals.
EntryPopulationSize == 2

EntryInstances ==
    {InstanceNoClasses, InstanceNoSemesters, InstanceNoFaculty,
     InstanceOversizedTheory, InstanceOversizedLab,
     InstanceBlockedDay, InstanceSingleTheory, InstanceLabBlockedMonday}

\* A constructor that does not look at the faculty.
ConstructorRaisesWithoutFacultyCheck(template, data) ==
    \/ template = << >>
    \/ data.semesters = {}

\* Lines 229-234: the three ValueErrors of the constructor.
ConstructorRaises(template, data) ==
    \/ template = << >>
    \/ data.semesters = {}
    \/ data.faculty = {}

\* The arguments of the constructor; nothing of the search exists.
EntryInit ==
    /\ pc = "new"
    /\ \E inst \in EntryInstances :
          /\ all_data = inst.all_data
          /\ classes_to_schedule_template = inst.classes
    /\ population_size \in 1..EntryPopulationSize
    /\ generations = MaxGenerations
    /\ population = << >>
    /\ best_individual = None
    /\ gen = 0
    /\ selected_parents = << >>
    /\ next_population = << >>
    /\ i = 0
    /\ p2_is_p1 = FALSE
    /\ progress_calls = << >>
    /\ highest_scored = << >>
    /\ class_to_place = 0
    /\ saved_timetables = << >>
    /\ loaded = << >>
    /\ fitness_calculator = << >>
    /\ heap = << >>
    /\ written = {}
    /\ perform_smart_mutation = FALSE

\* Lines 219-237: the constructor returns; run can be entered.
Construct ==
    /\ pc = "new"
    /\ ~ConstructorRaises(classes_to_schedule_template, all_data)
    /\ pc' = "ready"
    /\ UNCHANGED <<all_data, classes_to_schedule_template, population_size, generations,
                   population, best_individual, gen, selected_parents, next_population,
                   i, p2_is_p1, progress_calls, highest_scored, class_to_place,
                   saved_timetables, loaded,
                   fitness_calculator,
                   heap, written,
                   perform_smart_mutation>>

\* Lines 229-234: the constructor raises ValueError; there is no object to
\* call run on.
ConstructRaises ==
    /\ pc = "new"
    /\ ConstructorRaises(classes_to_schedule_template, all_data)
    /\ pc' = "raised"
    /\ UNCHANGED <<all_data, classes_to_schedule_template, population_size, generations,
                   population, best_individual, gen, selected_parents, next_population,
                   i, p2_is_p1, progress_calls, highest_scored, class_to_place,
                   saved_timetables, loaded,
                   fitness_calculator,
                   heap, written,
                   perform_smart_mutation>>

EntryNext ==
    \/ Construct
    \/ ConstructRaises
    \/ InitializePopulation
    \/ InitializePopulationRaises

EntrySpec == EntryInit /\ [][EntryNext]_vars

\* The instance is empty or under-specified: no class, no semester, no
\* faculty, or a gene longer than its type allows.
UnderSpecified ==
    \/ classes_to_schedule_template = << >>
    \/ all_data.semesters = {}
    \/ all_data.faculty = {}
    \/ \E k \in DOMAIN classes_to_schedule_template :
          ~WithinTypeBound(classes_to_schedule_template[k])

\* C16: an empty or under-specified instance never gets past the entry of
\* run: the constructor or the first create_individual of run raises for
\* it, so it is still to be constructed, constructed and not yet run, or
\* rejected; and whenever an instance is rejected it is such an instance
\* and no population, no best individual, no generation, no score and no
\* progress report exists.
C16_UnderSpecifiedRejectedBeforeSearch ==
    /\ UnderSpecified => pc \in {"new", "ready", "raised"}
    /\ UnderSpecified /\ pc = "ready" => CreateIndividualRaises(classes_to_schedule_template)
    /\ pc = "raised" =>
          /\ UnderSpecified
          /\ population = << >>
          /\ best_individual = None
          /\ gen = 0
          /\ progress_calls = << >>
          /\ highest_scored = << >>

\* C16 witness: the instance whose second gene is an oversized lab has
\* been rejected at the entry of run.
C16_Witness ==
    /\ pc = "raised"
    /\ ~ConstructorRaises(classes_to_schedule_template, all_data)
    /\ Len(classes_to_schedule_template) = 2
    /\ population = << >>

(***************************************************************************)
(* EvalSpec: the evaluator and find_empty_slot applied to any chromosome   *)
(* over the template of an instance, placed anywhere in the week or        *)
(* unplaced.                                                               *)
(***************************************************************************)
EvalInstances ==
    {InstanceTheoryAndLab, InstanceLabSameFaculty, InstanceTwoSemesters,
     InstanceSingleTheory, InstanceTwoTheory, InstanceLabBlockedMonday,
     InstanceAlwaysBlocked, InstanceLabBetweenTheory}

AnyPlacements == (DAYS \X (1..PERIODS_PER_DAY)) \cup {<<None, None>>}

\* Every chromosome over a template with each gene placed at one of 'slots'.
ChromosomesOver(template, slots) ==
    {TimetableChromosome([k \in DOMAIN template |->
                             [template[k] EXCEPT !.day = f[k][1], !.start_period = f[k][2]]]) :
        f \in [DOMAIN template -> slots]}

EvalInit ==
    /\ pc = "chromosome"
    /\ \E inst \in EvalInstances :
          /\ all_data = inst.all_data
          /\ classes_to_schedule_template = inst.classes
          /\ \E c \in ChromosomesOver(inst.classes, AnyPlacements) : population = <<c>>
    /\ population_size = 1
    /\ generations = 0
    /\ best_individual = None
    /\ gen = 0
    /\ selected_parents = << >>
    /\ next_population = << >>
    /\ i = 0
    /\ p2_is_p1 = FALSE
    /\ progress_calls = << >>
    /\ highest_scored = << >>
    /\ class_to_place = 0
    /\ saved_timetables = << >>
    /\ loaded = << >>
    /\ fitness_calculator = << >>
    /\ heap = << >>
    /\ written = {}
    /\ perform_smart_mutation = FALSE

\* fitness_calculator.calculate(chromosome)
EvalCalculate ==
    /\ pc \in {"chromosome", "placed"}
    /\ population' = <<calculate(all_data, population[1])>>
    /\ pc' = "scored"
    /\ UNCHANGED <<all_data, classes_to_schedule_template, population_size, generations,
                   best_individual, gen, selected_parents, next_population,
                   i, p2_is_p1, progress_calls, highest_scored, class_to_place,
                   saved_timetables, loaded,
                   fitness_calculator,
                   heap, written,
                   perform_smart_mutation>>

\* _attempt_find_empty_slot(gene, chromosome) on one gene of the chromosome;
\* the gene is moved to the slot returned, if any (mutation, lines 398-401).
EvalFindEmptySlot ==
    /\ pc = "chromosome"
    /\ \E g \in DOMAIN population[1].scheduled_classes :
       \E slot \in FindEmptySlotResults(all_data, population[1].scheduled_classes, g) :
          /\ class_to_place' = g
          /\ IF slot[1] # None
             THEN /\ population' = <<[population[1] EXCEPT
                                        !.scheduled_classes = Place(@, g, slot)]>>
                  /\ pc' = "placed"
             ELSE /\ population' = population
                  /\ pc' = "no_slot"
    /\ UNCHANGED <<all_data, classes_to_schedule_template, population_size, generations,
                   best_individual, gen, selected_parents, next_population,
                   i, p2_is_p1, progress_calls, highest_scored, saved_timetables, loaded,
                   fitness_calculator,
                   heap, written,
                   perform_smart_mutation>>

EvalNext == EvalCalculate \/ EvalFindEmptySlot

EvalSpec == EvalInit /\ [][EvalNext]_vars

(***************************************************************************)
(* Claims about the evaluator and find_empty_slot (EvalSpec).              *)
(***************************************************************************)
\* The penalties calculate adds for a chromosome of the current instance.
PenaltiesOf(c) == Evaluate(all_data, c.scheduled_classes).ledger

HardCodes == {"H0", "H1", "H2", "H3", "H4", "H5"}
SoftCodes == {"S1", "S2", "S3", "S4", "S5"}

\* The rules of the penalty table, stated on the placements themselves.
SlotsOf(sc) == {<<sc.day, p>> : p \in sc.start_period..end_period(sc)}

NoViolationByTable(classes) ==
    LET idx == DOMAIN classes
        hours(sel(_), day) ==
            UNION {{p \in classes[k].start_period..end_period(classes[k]) : TRUE} :
                      k \in {n \in idx : sel(classes[n]) /\ classes[n].day = day}}
        contiguous(S) == S = {} \/ S = SetMin(S)..SetMax(S)
        facs == UNION {Range(classes[k].faculty_ids) : k \in idx}
        sems == {classes[k].semester_id : k \in idx}
    IN  /\ \A k \in idx : ~IsUnplaced(classes[k])                                   \* H0
        /\ \A k, n \in idx :
              (k # n /\ classes[k].semester_id = classes[n].semester_id)
                  => SlotsOf(classes[k]) \cap SlotsOf(classes[n]) = {}              \* H1
        /\ \A k, n \in idx :
              (k # n /\ Range(classes[k].faculty_ids) \cap Range(classes[n].faculty_ids) # {})
                  => SlotsOf(classes[k]) \cap SlotsOf(classes[n]) = {}              \* H2
        /\ \A k \in idx : \A f \in Range(classes[k].faculty_ids) :
              SlotsOf(classes[k]) \cap faculty_blocked_slots(all_data, f) = {}      \* H3
        /\ \A k \in idx : classes[k].is_lab =>
              (classes[k].periods_count = 2 /\ end_period(classes[k]) <= 6)         \* H4
        /\ \A k \in idx : ~classes[k].is_lab => end_period(classes[k]) <= 4         \* H5
        /\ \A k \in idx : \A f \in Range(classes[k].faculty_ids) :
              SlotsOf(classes[k]) \subseteq faculty_preferred_slots(all_data, f)    \* S1
        /\ \A k \in idx : classes[k].is_lab => classes[k].start_period \notin {2, 4} \* S2
        /\ \A s \in sems : \A d \in DAYS :
              LET ofSem(sc) == sc.semester_id = s
              IN  contiguous(hours(ofSem, d))                                       \* S3
        /\ \A f \in facs : \A d \in DAYS :
              LET ofFac(sc) == f \in Range(sc.faculty_ids)
              IN  /\ contiguous(hours(ofFac, d))                                    \* S4
                  /\ Cardinality(hours(ofFac, d)) # 1                               \* S5

\* C6: for every chromosome, placed or with unplaced genes, the score that
\* calculate stores is an integer <= 0, it is the negation of the sum of
\* the penalties added (each of them positive), and it is 0 exactly when no
\* hard (H0-H5) and no soft (S1-S5) penalty was added; a score of 0 also
\* means that the placements break no rule of the penalty table.
C6_ScoreIsNegatedPenaltySum ==
    pc = "scored" =>
        LET c == population[1]
            penalties == PenaltiesOf(c)
        IN  /\ c.fitness \in Int
            /\ c.fitness <= 0
            /\ \A e \in penalties : e.amount > 0 /\ e.code \in HardCodes \cup SoftCodes
            /\ c.fitness = -SumAmounts(penalties)
            /\ (c.fitness = 0) <=>
                  (/\ ~\E e \in penalties : e.code \in HardCodes
                   /\ ~\E e \in penalties : e.code \in SoftCodes)
            /\ (c.fitness = 0) => NoViolationByTable(c.scheduled_classes)

\* C6 witness: a three-gene chromosome scored 0.
C6_Witness ==
    /\ pc = "scored"
    /\ Len(population[1].scheduled_classes) = 3
    /\ population[1].fitness = 0

\* C7: when find_empty_slot returned a slot for a gene and the gene was
\* moved there, scoring the chromosome adds no H1, no H2 and no H3 penalty
\* for that gene.
C7_FoundSlotHasNoHardPenalty ==
    (pc \in {"placed", "scored"} /\ class_to_place # 0) =>
        \A e \in PenaltiesOf(population[1]) :
            e.gene = class_to_place => e.code \notin {"H1", "H2", "H3"}

(***************************************************************************)
(* Claims about the scores of the concrete scenarios (EvalSpec).           *)
(***************************************************************************)
ScenarioIs(inst) ==
    /\ all_data = inst.all_data
    /\ classes_to_schedule_template = inst.classes

\* The chromosome calculate has just scored, for the instance 'inst'.
ScoredFor(inst) == pc = "scored" /\ ScenarioIs(inst)

\* Every gene placed within the periods of its type.
TypeValid(c) ==
    \A k \in DOMAIN c.scheduled_classes :
        LET sc == c.scheduled_classes[k]
        IN  /\ ~IsUnplaced(sc)
            /\ 1 <= sc.start_period
            /\ end_period(sc) <= IF sc.is_lab THEN 6 ELSE 4

CodesOf(c) == {e.code : e \in PenaltiesOf(c)}

\* C11 as claimed: a single theory class of 1 hour/week, one faculty, no
\* preferences: every penalty except S5 is zero for any type-valid
\* placement, and the maximum score is -15.
C11_SingleTheoryScoresMinus15 ==
    (ScoredFor(InstanceSingleTheory) /\ TypeValid(population[1])) =>
        /\ CodesOf(population[1]) \subseteq {"S5"}
        /\ population[1].fitness = -15

\* C11 amended: for that instance every penalty except S1 and S5 is zero
\* for any type-valid placement, every type-valid placement scores -25
\* (S1 10 + S5 15), and no placement scores more.
C11_SingleTheoryScoresMinus25 ==
    ScoredFor(InstanceSingleTheory) =>
        /\ population[1].fitness <= -25
        /\ TypeValid(population[1]) =>
              /\ CodesOf(population[1]) = {"S1", "S5"}
              /\ population[1].fitness = -25

\* C11 witness: the class at period 4, the last a theory class may take,
\* scored -25.
C11_Witness ==
    /\ ScoredFor(InstanceSingleTheory)
    /\ TypeValid(population[1])
    /\ population[1].scheduled_classes[1].start_period = 4
    /\ population[1].fitness = -25

\* The two genes of InstanceTwoTheory are on different days / in adjacent
\* periods of one day.
OnTwoDays(c) == c.scheduled_classes[1].day # c.scheduled_classes[2].day

Adjacent(c) ==
    /\ c.scheduled_classes[1].day = c.scheduled_classes[2].day
    /\ c.scheduled_classes[1].start_period - c.scheduled_classes[2].start_period \in {-1, 1}

\* C12 as claimed: two 1-hour theory genes of the same semester and
\* faculty, no preferences: the maximum score over all type-valid
\* placements is -30, attained by placing the two classes on two
\* different days.
C12_TwoTheoryBestIsMinus30 ==
    (ScoredFor(InstanceTwoTheory) /\ TypeValid(population[1])) =>
        /\ population[1].fitness <= -30
        /\ OnTwoDays(population[1]) => population[1].fitness = -30

\* C12 amended: the maximum score over all placements is -20, attained
\* exactly by the type-valid placements of the two classes in adjacent
\* periods of one day (S1 charged twice, no S5); on two different days
\* every type-valid placement scores -50 (S1 twice, S5 twice).
C12_TwoTheoryBestIsMinus20 ==
    ScoredFor(InstanceTwoTheory) =>
        /\ population[1].fitness <= -20
        /\ population[1].fitness = -20 <=>
              (TypeValid(population[1]) /\ Adjacent(population[1]))
        /\ (TypeValid(population[1]) /\ OnTwoDays(population[1])) =>
              /\ population[1].fitness = -50
              /\ CodesOf(population[1]) = {"S1", "S5"}

\* C12 witness: both scores are reached.
C12_Witness ==
    /\ ScoredFor(InstanceTwoTheory)
    /\ TypeValid(population[1])
    /\ Adjacent(population[1])
    /\ population[1].fitness = -20

MondayFirstTwoPeriods(c) ==
    /\ c.scheduled_classes[1].day = 1 /\ c.scheduled_classes[1].start_period = 1
    /\ c.scheduled_classes[2].day = 1 /\ c.scheduled_classes[2].start_period = 2

\* C14 as claimed: a theory mapping of 2 hours/week (two 1-period genes,
\* no preferences declared): the placement Mon P1 / Mon P2 scores 0.
C14_AdjacentPlacementScoresZero ==
    (ScoredFor(InstanceTwoTheory) /\ MondayFirstTwoPeriods(population[1])) =>
        population[1].fitness = 0

\* C14 amended: the placement Mon P1 / Mon P2 scores -20: S3, S4 and S5
\* are avoided and S1 is charged once for each gene; no placement of this
\* instance scores 0.
C14_AdjacentPlacementScoresMinus20 ==
    ScoredFor(InstanceTwoTheory) =>
        /\ population[1].fitness # 0
        /\ MondayFirstTwoPeriods(population[1]) =>
              /\ population[1].fitness = -20
              /\ \A e \in PenaltiesOf(population[1]) : e.code = "S1" /\ e.gene \in {1, 2}
              /\ Cardinality(PenaltiesOf(population[1])) = 2

\* C14 witness: Mon P1 / Mon P2 scored.
C14_Witness ==
    /\ ScoredFor(InstanceTwoTheory)
    /\ MondayFirstTwoPeriods(population[1])
    /\ population[1].fitness = -20

\* A hard rule of the penalty table (H0-H5) is broken by the placements.
HardViolationByTable(classes) ==
    LET idx == DOMAIN classes
        placed == {k \in idx : ~IsUnplaced(classes[k])}
    IN  \/ placed # idx                                                            \* H0
        \/ \E k, n \in placed :
              /\ k # n
              /\ classes[k].semester_id = classes[n].semester_id
              /\ SlotsOf(classes[k]) \cap SlotsOf(classes[n]) # {}                 \* H1
        \/ \E k, n \in placed :
              /\ k # n
              /\ Range(classes[k].faculty_ids) \cap Range(classes[n].faculty_ids) # {}
              /\ SlotsOf(classes[k]) \cap SlotsOf(classes[n]) # {}                 \* H2
        \/ \E k \in placed : \E f \in Range(classes[k].faculty_ids) :
              SlotsOf(classes[k]) \cap faculty_blocked_slots(all_data, f) # {}     \* H3
        \/ \E k \in placed :
              classes[k].is_lab /\ (classes[k].periods_count # 2 \/ end_period(classes[k]) > 6) \* H4
        \/ \E k \in placed : ~classes[k].is_lab /\ end_period(classes[k]) > 4     \* H5

\* C15: every hard violation is priced at >= 500: a chromosome with at
\* least one H0-H5 violation (one that calculate charges, or one the
\* placements show) scores <= -500; in particular every placement of a
\* theory class whose faculty is blocked at every period of every day
\* scores <= -500.
C15_HardViolationCostsAtLeast500 ==
    pc = "scored" =>
        /\ \/ HardViolationByTable(population[1].scheduled_classes)
           \/ CodesOf(population[1]) \cap HardCodes # {}
           => population[1].fitness <= -500
        /\ ScenarioIs(InstanceAlwaysBlocked) => population[1].fitness <= -500

\* C15 witness: the always-blocked class at a type-valid slot, charged
\* H3 only among the hard rules.
C15_Witness ==
    /\ ScoredFor(InstanceAlwaysBlocked)
    /\ TypeValid(population[1])
    /\ CodesOf(population[1]) \cap HardCodes = {"H3"}
    /\ population[1].fitness = -525

(***************************************************************************)
(* OpSpec: initialize_population, then crossover and mutation of the       *)
(* children, repeated, on a population of two chromosomes.                 *)
(***************************************************************************)
\* A three-period theory session and a five-period lab of one semester.
InstanceLongTheoryAndLab ==
    Instance({1}, {1, 2},
             {FacultyPreference(1, 1, 1, 2, "blocked")},
             <<ScheduledClass(1, 1, <<1>>, None, None, 3, FALSE),
               ScheduledClass(1, 2, <<1, 2>>, None, None, 5, TRUE)>>)

\* Three sessions of one semester and one faculty that fill whole days: a
\* four-period and a three-period theory session and a six-period lab.
InstanceFullDays ==
    Instance({1}, {1},
             {FacultyPreference(1, 2, 1, 6, "blocked")},
             <<ScheduledClass(1, 1, <<1>>, None, None, 4, FALSE),
               ScheduledClass(1, 2, <<1>>, None, None, 3, FALSE),
               ScheduledClass(1, 3, <<1, 1>>, None, None, 6, TRUE)>>)

\* Two four-period theory sessions of one semester, each with a faculty of
\* its own: either takes a whole morning.
InstanceTwoLongTheory ==
    Instance({1}, {1, 2}, {},
             <<ScheduledClass(1, 1, <<1>>, None, None, 4, FALSE),
               ScheduledClass(1, 2, <<2>>, None, None, 4, FALSE)>>)

OpInstances ==
    {InstanceLongTheoryAndLab, InstanceFullDays, InstanceLabSameFaculty,
     InstanceOversizedTheory}

OpInit ==
    /\ pc = "ready"
    /\ \E inst \in OpInstances :
          /\ all_data = inst.all_data
          /\ classes_to_schedule_template = inst.classes
    /\ population_size = 2
    /\ generations = 0
    /\ population = << >>
    /\ best_individual = None
    /\ gen = 0
    /\ selected_parents = << >>
    /\ next_population = << >>
    /\ i = 0
    /\ p2_is_p1 = FALSE
    /\ progress_calls = << >>
    /\ highest_scored = << >>
    /\ class_to_place = 0
    /\ saved_timetables = << >>
    /\ loaded = << >>
    /\ fitness_calculator = << >>
    /\ heap = << >>
    /\ written = {}
    /\ perform_smart_mutation = FALSE

\* initialize_population, lines 349-356, called on its own.
OpInitializePopulation ==
    /\ pc = "ready"
    /\ ~CreateIndividualRaises(classes_to_schedule_template)
    /\ population' \in [1..population_size ->
                            ScoredIndividuals(all_data, classes_to_schedule_template)]
    /\ pc' = "loop"
    /\ UNCHANGED <<all_data, classes_to_schedule_template, population_size, generations,
                   best_individual, gen, selected_parents, next_population,
                   i, p2_is_p1, progress_calls, highest_scored, class_to_place,
                   saved_timetables, loaded,
                   fitness_calculator,
                   heap, written,
                   perform_smart_mutation>>

\* crossover(population[0], population[1]) on an initial or a mutated
\* population; the children replace the parents.
OpCrossover ==
    /\ pc \in {"loop", "mutated"}
    /\ \/ \E crossover_point \in CrossoverPoints(classes_to_schedule_template) :
             population' = CrossoverAt(population[1], population[2],
                                       classes_to_schedule_template, crossover_point)
       \/ population' = CrossoverCopies(population[1], population[2])
    /\ pc' = "crossed"
    /\ UNCHANGED <<all_data, classes_to_schedule_template, population_size, generations,
                   best_individual, gen, selected_parents, next_population,
                   i, p2_is_p1, progress_calls, highest_scored, class_to_place,
                   saved_timetables, loaded,
                   fitness_calculator,
                   heap, written,
                   perform_smart_mutation>>

\* crossover when random.randint(1, 0) raises ValueError.
OpCrossoverRaises ==
    /\ pc \in {"loop", "mutated"}
    /\ CrossoverPoints(classes_to_schedule_template) = {}
    /\ Raised

\* mutation(population[k]) on a child of crossover, as run calls it: the
\* chromosome is changed in place.
OpMutation ==
    /\ pc = "crossed"
    /\ \E k \in DOMAIN population : \E m \in Mutations(all_data, population[k]) :
          population' = [population EXCEPT ![k] = m]
    /\ pc' = "mutated"
    /\ UNCHANGED <<all_data, classes_to_schedule_template, population_size, generations,
                   best_individual, gen, selected_parents, next_population,
                   i, p2_is_p1, progress_calls, highest_scored, class_to_place,
                   saved_timetables, loaded,
                   fitness_calculator,
                   heap, written,
                   perform_smart_mutation>>

OpNext ==
    \/ OpInitializePopulation
    \/ InitializePopulationRaises
    \/ OpCrossover
    \/ OpCrossoverRaises
    \/ OpMutation

OpSpec == OpInit /\ [][OpNext]_vars

(***************************************************************************)
(* Claims about the chromosomes the operators produce (OpSpec).            *)
(***************************************************************************)
\* Every chromosome of the population, once it is initialized.
Produced ==
    IF pc \in {"loop", "crossed", "mutated"} THEN Range(population) ELSE {}

\* C8: template parity: every chromosome produced by initialization, by
\* crossover (either branch) or by mutation has the template's length and,
\* at every index, the template's semester_id, course_id, faculty_ids,
\* periods_count and is_lab.
C8_TemplateParity ==
    \A c \in Produced :
        /\ Len(c.scheduled_classes) = Len(classes_to_schedule_template)
        /\ \A k \in DOMAIN classes_to_schedule_template :
              LET sc == c.scheduled_classes[k]
                  t == classes_to_schedule_template[k]
              IN  /\ sc.semester_id = t.semester_id
                  /\ sc.course_id = t.course_id
                  /\ sc.faculty_ids = t.faculty_ids
                  /\ sc.periods_count = t.periods_count
                  /\ sc.is_lab = t.is_lab

\* C8 witness: children of a three-gene template after a crossover, the
\* first child with genes on different days.
C8_Witness ==
    /\ pc = "crossed"
    /\ Len(classes_to_schedule_template) = 3
    /\ population[1].scheduled_classes[1].day # population[1].scheduled_classes[3].day
    /\ population[1] # population[2]

\* C9: placement totality and day bounds: in every chromosome that exists
\* after initialization and after any crossover or mutation, every gene
\* has a day and a start_period, with 1 <= start_period and
\* end_period = start_period + periods_count - 1 <= 6.
C9_PlacedWithinDay ==
    \A c \in Produced : \A k \in DOMAIN c.scheduled_classes :
        LET sc == c.scheduled_classes[k]
        IN  /\ sc.day # None
            /\ sc.start_period # None
            /\ 1 <= sc.start_period
            /\ sc.start_period + sc.periods_count - 1 <= 6

\* C9 witness: after a mutation, a lab that ends at period 6 in a
\* chromosome of two or more genes.
C9_Witness ==
    /\ pc = "mutated"
    /\ Len(classes_to_schedule_template) >= 2
    /\ \E c \in Range(population) : \E k \in DOMAIN c.scheduled_classes :
          /\ c.scheduled_classes[k].is_lab
          /\ c.scheduled_classes[k].start_period > 1
          /\ end_period(c.scheduled_classes[k]) = 6

\* C10: in every chromosome produced by initialization every gene has its
\* day among the working days, and its start_period in
\* [1, 4 - periods_count + 1] if it is a theory gene, in
\* [1, 6 - periods_count + 1] if it is a lab gene.
C10_InitialPlacementWithinTypeBound ==
    pc = "loop" =>
        \A c \in Range(population) : \A k \in DOMAIN c.scheduled_classes :
            LET sc == c.scheduled_classes[k]
            IN  /\ sc.day \in DAYS
                /\ ~sc.is_lab => sc.start_period \in 1..(4 - sc.periods_count + 1)
                /\ sc.is_lab => sc.start_period \in 1..(6 - sc.periods_count + 1)

\* C10 witness: an initial chromosome with a theory gene and a lab gene
\* both at the largest start period of their type.
C10_Witness ==
    /\ pc = "loop"
    /\ \E c \in Range(population) : \E k, n \in DOMAIN c.scheduled_classes :
          /\ ~c.scheduled_classes[k].is_lab
          /\ c.scheduled_classes[k].start_period = 4 - c.scheduled_classes[k].periods_count + 1
          /\ c.scheduled_classes[k].start_period > 1
          /\ c.scheduled_classes[n].is_lab
          /\ c.scheduled_classes[n].start_period = 6 - c.scheduled_classes[n].periods_count + 1
          /\ c.scheduled_classes[n].start_period > 1

(***************************************************************************)
(* DeriveSpec: get_classes_to_schedule on lists of theory and lab mappings  *)
(* whose references are resolved (the id of the object) or None.           *)
(***************************************************************************)
\* The most theory mappings, and the most lab mappings, of an instance.
MaxMappings == 2

\* hours_per_week of the courses: 1 and 2 are theory courses, 3 and 4 labs.
CourseHours == <<2, 1, 3, 1>>

TheoryMapping(semester, course, faculty) ==
    [semester |-> semester, course |-> course, faculty |-> faculty]

LabMapping(semester, lab_course, faculty_1, faculty_2) ==
    [semester |-> semester, lab_course |-> lab_course,
     faculty_1 |-> faculty_1, faculty_2 |-> faculty_2]

\* Theory mappings: resolved, or with one reference missing.
TheoryMappings ==
    {TheoryMapping(1, 1, 1), TheoryMapping(1, 2, 2), TheoryMapping(None, 1, 1),
     TheoryMapping(1, None, 1), TheoryMapping(1, 1, None)}

\* Lab mappings: resolved, or with one reference missing.
LabMappings ==
    {LabMapping(1, 3, 1, 2), LabMapping(1, 4, 2, 1), LabMapping(None, 3, 1, 2),
     LabMapping(1, None, 1, 2), LabMapping(1, 3, None, 2), LabMapping(1, 3, 1, None)}

SeqsUpTo(S, n) == UNION {[1..m -> S] : m \in 0..n}

\* Lines 556-565: the genes of one theory mapping.
TheoryGenes(tm) ==
    IF tm.course # None /\ tm.faculty # None /\ tm.semester # None
    THEN [h \in 1..CourseHours[tm.course] |->
            ScheduledClass(tm.semester, tm.course, <<tm.faculty>>, None, None, 1, FALSE)]
    ELSE << >>

\* A lab mapping that gives one gene for every weekly hour of its course.
LabGenesPerWeeklyHour(lm) ==
    IF lm.lab_course # None /\ lm.faculty_1 # None /\ lm.faculty_2 # None /\ lm.semester # None
    THEN [h \in 1..CourseHours[lm.lab_course] |->
            ScheduledClass(lm.semester, lm.lab_course, <<lm.faculty_1, lm.faculty_2>>,
                           None, None, 2, TRUE)]
    ELSE << >>

\* Lines 567-576: the genes of one lab mapping.
LabGenes(lm) ==
    IF lm.lab_course # None /\ lm.faculty_1 # None /\ lm.faculty_2 # None /\ lm.semester # None
    THEN <<ScheduledClass(lm.semester, lm.lab_course, <<lm.faculty_1, lm.faculty_2>>,
                          None, None, 2, TRUE)>>
    ELSE << >>

\* The two loops: classes_to_schedule after the first k mappings.
RECURSIVE AppendTheory(_, _)
AppendTheory(theory_mappings, k) ==
    IF k = 0 THEN << >>
    ELSE AppendTheory(theory_mappings, k - 1) \o TheoryGenes(theory_mappings[k])

RECURSIVE AppendLabs(_, _, _)
AppendLabs(classes_to_schedule, lab_mappings, k) ==
    IF k = 0 THEN classes_to_schedule
    ELSE AppendLabs(classes_to_schedule, lab_mappings, k - 1) \o LabGenes(lab_mappings[k])

\* Lines 553-578.
get_classes_to_schedule(data) ==
    AppendLabs(AppendTheory(data.theory_mappings, Len(data.theory_mappings)),
               data.lab_mappings, Len(data.lab_mappings))

DeriveInit ==
    /\ pc = "loaded"
    /\ \E tms \in SeqsUpTo(TheoryMappings, MaxMappings), lms \in SeqsUpTo(LabMappings, MaxMappings) :
          all_data = [theory_mappings |-> tms, lab_mappings |-> lms]
    /\ classes_to_schedule_template = << >>
    /\ population_size = 0
    /\ generations = 0
    /\ population = << >>
    /\ best_individual = None
    /\ gen = 0
    /\ selected_parents = << >>
    /\ next_population = << >>
    /\ i = 0
    /\ p2_is_p1 = FALSE
    /\ progress_calls = << >>
    /\ highest_scored = << >>
    /\ class_to_place = 0
    /\ saved_timetables = << >>
    /\ loaded = << >>
    /\ fitness_calculator = << >>
    /\ heap = << >>
    /\ written = {}
    /\ perform_smart_mutation = FALSE

\* classes_to_schedule = get_classes_to_schedule(all_data).
DeriveClasses ==
    /\ pc = "loaded"
    /\ classes_to_schedule_template' = get_classes_to_schedule(all_data)
    /\ pc' = "derived"
    /\ UNCHANGED <<all_data, population_size, generations, population, best_individual,
                   gen, selected_parents, next_population, i, p2_is_p1, progress_calls,
                   highest_scored, class_to_place,
                   saved_timetables, loaded,
                   fitness_calculator,
                   heap, written,
                   perform_smart_mutation>>

DeriveNext == DeriveClasses

DeriveSpec == DeriveInit /\ [][DeriveNext]_vars

\* A mapping all of whose references resolve.
TheoryResolved(tm) == tm.semester # None /\ tm.course # None /\ tm.faculty # None
LabResolved(lm) ==
    lm.semester # None /\ lm.lab_course # None /\ lm.faculty_1 # None /\ lm.faculty_2 # None

\* The weekly hours a theory mapping asks for; none when it is skipped.
HoursAsked(tm) == IF TheoryResolved(tm) THEN CourseHours[tm.course] ELSE 0

\* The number of genes owed to the theory mappings before position k, and
\* to the lab mappings before position k.
TheoryGenesBefore(tms, k) ==
    Cardinality({nh \in (1..(k - 1)) \X (1..SetMax(Range(CourseHours))) : nh[2] <= HoursAsked(tms[nh[1]])})
LabGenesBefore(lms, k) == Cardinality({n \in 1..(k - 1) : LabResolved(lms[n])})

\* An unplaced gene with these fields.
UnplacedGene(sc, semester_id, course_id, faculty_ids, periods_count, is_lab) ==
    /\ sc.semester_id = semester_id
    /\ sc.course_id = course_id
    /\ sc.faculty_ids = faculty_ids
    /\ sc.periods_count = periods_count
    /\ sc.is_lab = is_lab
    /\ sc.day = None
    /\ sc.start_period = None

\* C17: get_classes_to_schedule returns the theory genes before the lab
\* genes, each group in mapping order: hours_per_week unplaced genes of one
\* period, not lab, faculty_ids = [faculty] for every resolved theory
\* mapping; one unplaced gene of two periods, lab, faculty_ids = [faculty_1,
\* faculty_2] for every resolved lab mapping whatever the weekly hours of
\* its course; nothing for a mapping with a missing reference; and nothing
\* else.
C17_DerivedClassesFollowMappings ==
    pc = "derived" =>
        LET out == classes_to_schedule_template
            tms == all_data.theory_mappings
            lms == all_data.lab_mappings
            theory_total == TheoryGenesBefore(tms, Len(tms) + 1)
        IN  /\ Len(out) = theory_total + LabGenesBefore(lms, Len(lms) + 1)
            /\ \A k \in DOMAIN tms : \A h \in 1..HoursAsked(tms[k]) :
                  UnplacedGene(out[TheoryGenesBefore(tms, k) + h],
                               tms[k].semester, tms[k].course, <<tms[k].faculty>>, 1, FALSE)
            /\ \A k \in DOMAIN lms :
                  LabResolved(lms[k]) =>
                      UnplacedGene(out[theory_total + LabGenesBefore(lms, k) + 1],
                                   lms[k].semester, lms[k].lab_course,
                                   <<lms[k].faculty_1, lms[k].faculty_2>>, 2, TRUE)

\* C17 witness: a skipped theory mapping before a two-hour one, and a
\* skipped lab mapping before a lab of three weekly hours, gave three genes.
C17_Witness ==
    /\ pc = "derived"
    /\ all_data.theory_mappings = <<TheoryMapping(1, None, 1), TheoryMapping(1, 1, 1)>>
    /\ all_data.lab_mappings = <<LabMapping(1, 3, None, 2), LabMapping(1, 3, 1, 2)>>
    /\ Len(classes_to_schedule_template) = 3
    /\ classes_to_schedule_template[3].is_lab

(***************************************************************************)
(* SaveSpec: add_saved_timetable and load_saved_timetable_data on a        *)
(* chromosome and the snapshot load_all_data gives.  An object is the      *)
(* record of its attributes (its __dict__).                                *)
(***************************************************************************)
\* The largest id of a department, a semester, a faculty or a course.
MaxId == 2

\* The most rows of saved_timetables.
MaxSaved == 2

Department(id, name) == [id |-> id, name |-> name]
Semester(id, semester_number) == [id |-> id, semester_number |-> semester_number]
Course(id, code, name, hours_per_week, type) ==
    [id |-> id, code |-> code, name |-> name, hours_per_week |-> hours_per_week, type |-> type]

\* Faculty.__init__ with department_name left at its default.
Faculty(id, name, emp_id, department_id) ==
    [id |-> id, name |-> name, emp_id |-> emp_id, department_id |-> department_id,
     department_name |-> None]

\* Faculty.set_department: a new attribute department, the Department
\* object itself, and its name.
set_department(fac_obj, department_obj) ==
    [a \in DOMAIN fac_obj \cup {"department"} |->
        IF a = "department" THEN department_obj
        ELSE IF a = "department_name" THEN department_obj.name
        ELSE fac_obj[a]]

\* load_all_data, lines 500-506: a faculty row becomes a Faculty whose
\* department is set when its department_id is a key of departments.
LoadedFaculty(row, departments) ==
    IF row.department_id \in DOMAIN departments
    THEN set_department(row, departments[row.department_id])
    ELSE row

\* The department and the faculty rows of the database.
DepartmentRow == Department(1, "CS")
FacultyRows == {Faculty(1, "A", "E1", 1), Faculty(2, "B", "E2", None)}

\* load_all_data: the four maps by id, for every choice of rows.
Snapshots ==
    {[departments_by_id |-> [k \in ds |-> DepartmentRow],
      semesters_by_id |-> [k \in {1} |-> Semester(1, 3)],
      faculty_by_id |-> [k \in {r.id : r \in rows} |->
                            LoadedFaculty(CHOOSE r \in rows : r.id = k,
                                          [d \in ds |-> DepartmentRow])],
      courses_by_id |-> [k \in {1} |-> Course(1, "C1", "course", 1, "theory")]] :
        ds \in SUBSET {1}, rows \in SUBSET FacultyRows}

\* json.dumps raises TypeError for an attribute whose value is an object:
\* here the attribute department, a Department.
JsonDumpsRaises(objects_by_id) ==
    \E k \in DOMAIN objects_by_id : "department" \in DOMAIN objects_by_id[k]

\* json.dumps of a dict with integer keys: the keys become strings.
JsonObject(objects_by_id) ==
    [s \in {ToString(k) : k \in DOMAIN objects_by_id} |->
        objects_by_id[CHOOSE k \in DOMAIN objects_by_id : ToString(k) = s]]

\* int(k) of a key read back from JSON.
int(s) == CHOOSE n \in 0..MaxId : ToString(n) = s

\* base64.b64encode / b64decode of the JSON text.
b64encode(text) == <<"base64", text>>
b64decode(blob) == blob[2]

\* Lines 582-598.
convert_chromosome_to_dict(chromosome) ==
    [fitness |-> chromosome.fitness,
     scheduled_classes |->
        [k \in DOMAIN chromosome.scheduled_classes |->
            LET sc == chromosome.scheduled_classes[k]
            IN  [semester_id |-> sc.semester_id, course_id |-> sc.course_id,
                 faculty_ids |-> sc.faculty_ids, day |-> sc.day,
                 start_period |-> sc.start_period, periods_count |-> sc.periods_count,
                 is_lab |-> sc.is_lab]]]

\* Lines 600-623: the genes are built again and the stored fitness is
\* written over the 0 of the new chromosome.
convert_dict_to_chromosome(chromosome_dict) ==
    [TimetableChromosome(
        [k \in DOMAIN chromosome_dict.scheduled_classes |->
            LET sc_dict == chromosome_dict.scheduled_classes[k]
            IN  ScheduledClass(sc_dict.semester_id, sc_dict.course_id, sc_dict.faculty_ids,
                               sc_dict.day, sc_dict.start_period, sc_dict.periods_count,
                               sc_dict.is_lab)])
     EXCEPT !.fitness = chromosome_dict.fitness]

\* Faculty(**v): the constructor takes these five keywords and no other.
FacultyFromDict(v) ==
    [id |-> v.id, name |-> v.name, emp_id |-> v.emp_id, department_id |-> v.department_id,
     department_name |-> v.department_name]

\* Lines 630-636: the JSON text of the snapshot.
SnapshotJson(all_data_snapshot) ==
    [departments_by_id |-> JsonObject(all_data_snapshot.departments_by_id),
     semesters_by_id |-> JsonObject(all_data_snapshot.semesters_by_id),
     faculty_by_id |-> JsonObject(all_data_snapshot.faculty_by_id),
     courses_by_id |-> JsonObject(all_data_snapshot.courses_by_id)]

SnapshotJsonRaises(all_data_snapshot) ==
    \/ JsonDumpsRaises(all_data_snapshot.departments_by_id)
    \/ JsonDumpsRaises(all_data_snapshot.semesters_by_id)
    \/ JsonDumpsRaises(all_data_snapshot.faculty_by_id)
    \/ JsonDumpsRaises(all_data_snapshot.courses_by_id)

\* Lines 680-691: the maps keyed by int(k), every faculty with its
\* department set when the department is in the snapshot.
ReconstructedSnapshot(all_data_dict) ==
    LET ByInt(d) == [k \in {int(str) : str \in DOMAIN d} |-> d[ToString(k)]]
        departments == ByInt(all_data_dict.departments_by_id)
        faculty == ByInt(all_data_dict.faculty_by_id)
    IN  [departments_by_id |-> departments,
         semesters_by_id |-> ByInt(all_data_dict.semesters_by_id),
         faculty_by_id |-> [k \in DOMAIN faculty |->
                               LoadedFaculty(FacultyFromDict(faculty[k]), departments)],
         courses_by_id |-> ByInt(all_data_dict.courses_by_id)]

TimetableNames == {"first", "second"}

\* A chromosome run returned, and the snapshot of load_all_data.
SaveInit ==
    /\ pc = "idle"
    /\ all_data \in Snapshots
    /\ \E inst \in {InstanceTwoTheory, InstanceLabBlockedMonday} :
          /\ best_individual \in ScoredIndividuals(inst.all_data, inst.classes)
          /\ classes_to_schedule_template = inst.classes
    /\ population_size = 0
    /\ generations = 0
    /\ population = << >>
    /\ gen = 0
    /\ selected_parents = << >>
    /\ next_population = << >>
    /\ i = 0
    /\ p2_is_p1 = FALSE
    /\ progress_calls = << >>
    /\ highest_scored = << >>
    /\ class_to_place = 0
    /\ saved_timetables = << >>
    /\ loaded = << >>
    /\ fitness_calculator = << >>
    /\ heap = << >>
    /\ written = {}
    /\ perform_smart_mutation = FALSE

NameTaken(timetable_name) ==
    \E r \in DOMAIN saved_timetables : saved_timetables[r].timetable_name = timetable_name

\* add_saved_timetable, lines 625-648: the row is inserted, True.
AddSavedTimetable ==
    /\ Len(saved_timetables) < MaxSaved
    /\ ~SnapshotJsonRaises(all_data)
    /\ \E timetable_name \in TimetableNames :
          /\ ~NameTaken(timetable_name)
          /\ saved_timetables' = Append(saved_timetables,
                [id |-> Len(saved_timetables) + 1,
                 timetable_name |-> timetable_name,
                 timetable_data |-> b64encode(convert_chromosome_to_dict(best_individual)),
                 data_snapshot |-> b64encode(SnapshotJson(all_data))])
    /\ pc' = "saved"
    /\ UNCHANGED <<all_data, classes_to_schedule_template, population_size, generations,
                   population, best_individual, gen, selected_parents, next_population,
                   i, p2_is_p1, progress_calls, highest_scored, class_to_place, loaded,
                   fitness_calculator,
                   heap, written,
                   perform_smart_mutation>>

\* Lines 649-650: the name exists for the user, IntegrityError, False.
AddSavedTimetableNameTaken ==
    /\ ~SnapshotJsonRaises(all_data)
    /\ \E timetable_name \in TimetableNames : NameTaken(timetable_name)
    /\ pc' = "name_taken"
    /\ UNCHANGED <<all_data, classes_to_schedule_template, population_size, generations,
                   population, best_individual, gen, selected_parents, next_population,
                   i, p2_is_p1, progress_calls, highest_scored, class_to_place,
                   saved_timetables, loaded,
                   fitness_calculator,
                   heap, written,
                   perform_smart_mutation>>

\* Lines 651-653: json.dumps raised, "Error saving timetable", False.
AddSavedTimetableError ==
    /\ SnapshotJsonRaises(all_data)
    /\ pc' = "save_error"
    /\ UNCHANGED <<all_data, classes_to_schedule_template, population_size, generations,
                   population, best_individual, gen, selected_parents, next_population,
                   i, p2_is_p1, progress_calls, highest_scored, class_to_place,
                   saved_timetables, loaded,
                   fitness_calculator,
                   heap, written,
                   perform_smart_mutation>>

\* load_saved_timetable_data, lines 665-695: the row exists.
LoadSavedTimetableData ==
    /\ \E timetable_id \in DOMAIN saved_timetables :
          loaded' = <<convert_dict_to_chromosome(b64decode(saved_timetables[timetable_id].timetable_data)),
                      ReconstructedSnapshot(b64decode(saved_timetables[timetable_id].data_snapshot))>>
    /\ pc' = "loaded"
    /\ UNCHANGED <<all_data, classes_to_schedule_template, population_size, generations,
                   population, best_individual, gen, selected_parents, next_population,
                   i, p2_is_p1, progress_calls, highest_scored, class_to_place,
                   saved_timetables,
                   fitness_calculator,
                   heap, written,
                   perform_smart_mutation>>

\* Line 696: no such row, (None, None).
LoadSavedTimetableDataNoRow ==
    /\ \E timetable_id \in 1..MaxSaved : timetable_id \notin DOMAIN saved_timetables
    /\ loaded' = <<None, None>>
    /\ pc' = "no_row"
    /\ UNCHANGED <<all_data, classes_to_schedule_template, population_size, generations,
                   population, best_individual, gen, selected_parents, next_population,
                   i, p2_is_p1, progress_calls, highest_scored, class_to_place,
                   saved_timetables,
                   fitness_calculator,
                   heap, written,
                   perform_smart_mutation>>

SaveNext ==
    \/ AddSavedTimetable
    \/ AddSavedTimetableNameTaken
    \/ AddSavedTimetableError
    \/ LoadSavedTimetableData
    \/ LoadSavedTimetableDataNoRow

SaveSpec == SaveInit /\ [][SaveNext]_vars

\* Saving never ends in the error branch.
SaveSucceeds == pc # "save_error"

\* The (semester_id, course_id, faculty_ids, day, start_period,
\* periods_count, is_lab) of a gene.
GeneTuple(sc) ==
    <<sc.semester_id, sc.course_id, sc.faculty_ids, sc.day, sc.start_period,
      sc.periods_count, sc.is_lab>>

\* The objects of a map are those of the other, under the same ids.
SameById(restored, original) ==
    /\ DOMAIN restored = DOMAIN original
    /\ \A k \in DOMAIN original : restored[k].id = k /\ original[k].id = k

\* What was loaded is what was saved.
LoadedEqualsSaved ==
    pc = "loaded" =>
        /\ loaded[1].fitness = best_individual.fitness
        /\ Len(loaded[1].scheduled_classes) = Len(best_individual.scheduled_classes)
        /\ \A k \in DOMAIN best_individual.scheduled_classes :
              GeneTuple(loaded[1].scheduled_classes[k]) = GeneTuple(best_individual.scheduled_classes[k])
        /\ SameById(loaded[2].departments_by_id, all_data.departments_by_id)
        /\ SameById(loaded[2].semesters_by_id, all_data.semesters_by_id)
        /\ SameById(loaded[2].faculty_by_id, all_data.faculty_by_id)
        /\ SameById(loaded[2].courses_by_id, all_data.courses_by_id)

\* C18: round trip: a chromosome returned by run and the snapshot of
\* load_all_data are saved under an unused name without error, and loading
\* the row gives a chromosome of the same score and the same gene tuples
\* in the same order, with the departments, semesters, faculty and courses
\* of the snapshot under their ids.
C18_SaveAndLoadRoundTrip == SaveSucceeds /\ LoadedEqualsSaved

(***************************************************************************)
(* PureSpec: one evaluator scoring the members of a population again and   *)
(* again (run, lines 421-422).  The evaluator keeps two maps from faculty   *)
(* id to slots (defaultdict(set)): reading a missing key adds it.          *)
(***************************************************************************)
\* The most passes over the population.
MaxPasses == 2

PureInstances == {InstanceSingleTheory, InstancePreferredDay, InstanceLabBlockedMonday}

\* TimetableFitness.__init__, lines 56-66: the keys are the faculty ids
\* that have a preference of the kind.
SlotMap(data, blocked) ==
    [f \in {pref.faculty_id : pref \in {q \in data.faculty_preferences :
                                           (q.preference_type = "blocked") = blocked}} |->
        PreferenceSlots(data, f, blocked)]

TimetableFitness(data) ==
    [faculty_blocked_slots |-> SlotMap(data, TRUE),
     faculty_preferred_slots |-> SlotMap(data, FALSE)]

\* A defaultdict whose missing keys come into being holding a slot.
TouchedWithSlot(slot_map, faculty_ids) ==
    [f \in DOMAIN slot_map \cup faculty_ids |->
        IF f \in DOMAIN slot_map THEN slot_map[f] ELSE {<<1, 1>>}]

\* defaultdict(set) after slot_map[f] was read for every f of faculty_ids.
Touched(slot_map, faculty_ids) ==
    [f \in DOMAIN slot_map \cup faculty_ids |->
        IF f \in DOMAIN slot_map THEN slot_map[f] ELSE {}]

\* The faculty ids calculate looks up: those of the placed genes (lines
\* 126-128 and 150-153; an unplaced gene is left at line 101).
LookedUp(c) ==
    UNION {Range(c.scheduled_classes[k].faculty_ids) :
             k \in {n \in DOMAIN c.scheduled_classes : ~IsUnplaced(c.scheduled_classes[n])}}

\* What the evaluator holds, as preferences of one period each: what
\* calculate reads is the two maps, not all_data.
HeldPreferences(calculator) ==
    {FacultyPreference(f, slot[1], slot[2], slot[2], "blocked") :
        f \in DOMAIN calculator.faculty_blocked_slots, slot \in DAYS \X (1..PERIODS_PER_DAY)}
    \cup {FacultyPreference(f, slot[1], slot[2], slot[2], "preferred") :
        f \in DOMAIN calculator.faculty_preferred_slots, slot \in DAYS \X (1..PERIODS_PER_DAY)}

HeldData(data, calculator) ==
    [data EXCEPT !.faculty_preferences =
        {pref \in HeldPreferences(calculator) :
            <<pref.day, pref.period_start>> \in
                (IF pref.preference_type = "blocked"
                 THEN calculator.faculty_blocked_slots[pref.faculty_id]
                 ELSE calculator.faculty_preferred_slots[pref.faculty_id])}]

\* The evaluator after calculate(c).
AfterCalculate(calculator, c) ==
    [faculty_blocked_slots |-> Touched(calculator.faculty_blocked_slots, LookedUp(c)),
     faculty_preferred_slots |-> Touched(calculator.faculty_preferred_slots, LookedUp(c))]

\* Two chromosomes over the template of an instance, and its evaluator.
PureInit ==
    /\ pc = "scoring"
    /\ \E inst \in PureInstances :
          /\ all_data = inst.all_data
          /\ classes_to_schedule_template = inst.classes
          /\ population \in [1..2 -> ChromosomesOver(inst.classes, AnyPlacements)]
          /\ fitness_calculator = TimetableFitness(inst.all_data)
    /\ population_size = 2
    /\ generations = MaxPasses
    /\ best_individual = None
    /\ gen = 0
    /\ selected_parents = << >>
    /\ next_population = << >>
    /\ i = 0
    /\ p2_is_p1 = FALSE
    /\ progress_calls = << >>
    /\ highest_scored = << >>
    /\ class_to_place = 0
    /\ saved_timetables = << >>
    /\ loaded = << >>
    /\ heap = << >>
    /\ written = {}
    /\ perform_smart_mutation = FALSE

\* Line 422: self.fitness_calculator.calculate(individual) for the next
\* individual of the population.
PureCalculate ==
    /\ pc = "scoring"
    /\ i < Len(population)
    /\ population' = [population EXCEPT
                        ![i + 1] = calculate(HeldData(all_data, fitness_calculator), @)]
    /\ fitness_calculator' = AfterCalculate(fitness_calculator, population[i + 1])
    /\ i' = i + 1
    /\ UNCHANGED <<pc, all_data, classes_to_schedule_template, population_size, generations,
                   best_individual, gen, selected_parents, next_population, p2_is_p1,
                   progress_calls, highest_scored, class_to_place, saved_timetables, loaded,
                   heap, written,
                   perform_smart_mutation>>

\* Lines 419-421: the next generation scores the population again.
PureNextPass ==
    /\ pc = "scoring"
    /\ i = Len(population)
    /\ gen + 1 < generations
    /\ gen' = gen + 1
    /\ i' = 0
    /\ UNCHANGED <<pc, all_data, classes_to_schedule_template, population_size, generations,
                   population, best_individual, selected_parents, next_population, p2_is_p1,
                   progress_calls, highest_scored, class_to_place, saved_timetables, loaded,
                   fitness_calculator,
                   heap, written,
                   perform_smart_mutation>>

PureNext == PureCalculate \/ PureNextPass

PureSpec == PureInit /\ [][PureNext]_vars

GeneObjects(h) == UNION {Range(h[c]) : c \in DOMAIN h}
NewGene(h) == Cardinality(GeneObjects(h)) + 1

\* create_individual, lines 337-347: a new chromosome of new genes, one
\* copy per template gene.
HeapCreateIndividual(h, template) ==
    Append(h, [k \in DOMAIN template |-> NewGene(h) + k - 1])

\* A copy that puts the genes of the original into the new chromosome.
HeapCopySharingGenes(h, c) == Append(h, h[c])

\* TimetableChromosome.copy, lines 36-43: a new chromosome holding a new
\* copy of every gene.
HeapCopy(h, c) == Append(h, [k \in DOMAIN h[c] |-> NewGene(h) + k - 1])

\* initialize_population: population_size new individuals.
RECURSIVE HeapInitializePopulation(_, _, _)
HeapInitializePopulation(h, template, size) ==
    IF size = 0 THEN h
    ELSE HeapCreateIndividual(HeapInitializePopulation(h, template, size - 1), template)

\* crossover, lines 370-386: the heap after the two copies, the children,
\* and the genes assigned for a crossover point (0 when the parents are
\* only copied).
HeapCrossover(h, parent1, parent2, crossover_point) ==
    LET h1 == HeapCopy(h, parent1)
        h2 == HeapCopy(h1, parent2)
        child1 == Len(h1)
        child2 == Len(h2)
    IN  [heap |-> h2, child1 |-> child1, child2 |-> child2,
         written |-> IF crossover_point = 0 THEN {}
                     ELSE {h2[child1][k] : k \in {n \in DOMAIN h2[child1] : n - 1 >= crossover_point}}
                          \cup {h2[child2][k] : k \in {n \in DOMAIN h2[child2] : n - 1 >= crossover_point}}]

\* mutation, lines 394-410: the genes of the chromosome that can be
\* assigned: any of its genes, or none.
HeapMutations(h, c) == SUBSET Range(h[c])

\* The members that can win a tournament or be the first best_individual.
Fittest(pop) == {pop[k] : k \in {n \in DOMAIN pop : n <= 2}}

AliasInit ==
    /\ pc = "ready"
    /\ all_data = InstanceTwoTheory.all_data
    /\ classes_to_schedule_template = InstanceTwoTheory.classes
    /\ population_size = TOURNAMENT_SIZE
    /\ generations = 2
    /\ population = << >>
    /\ best_individual = None
    /\ gen = 0
    /\ selected_parents = << >>
    /\ next_population = << >>
    /\ i = 0
    /\ p2_is_p1 = FALSE
    /\ progress_calls = << >>
    /\ highest_scored = << >>
    /\ class_to_place = 0
    /\ saved_timetables = << >>
    /\ loaded = << >>
    /\ fitness_calculator = << >>
    /\ heap = << >>
    /\ written = {}
    /\ perform_smart_mutation = FALSE

\* Lines 416-417: best_individual is a member of the population itself.
AliasInitializePopulation ==
    /\ pc = "ready"
    /\ heap' = HeapInitializePopulation(heap, classes_to_schedule_template, population_size)
    /\ population' = [k \in 1..population_size |-> k]
    /\ best_individual' \in Fittest(population')
    /\ written' = {}
    /\ pc' = "loop"
    /\ UNCHANGED <<all_data, classes_to_schedule_template, population_size, generations,
                   gen, selected_parents, next_population, i, p2_is_p1, progress_calls,
                   highest_scored, class_to_place, saved_timetables, loaded,
                   fitness_calculator,
                   perform_smart_mutation>>

\* Lines 419-431: best_individual stays or becomes a copy of the fittest
\* member; the parents are winners of the tournaments, shuffled.
AliasBeginGeneration ==
    /\ pc = "loop"
    /\ gen < generations
    /\ \/ UNCHANGED <<heap, best_individual>>
       \/ \E current_best_in_generation \in Fittest(population) :
             /\ heap' = HeapCopy(heap, current_best_in_generation)
             /\ best_individual' = Len(heap')
    /\ selected_parents' \in [1..population_size -> Fittest(population)]
    /\ next_population' = << >>
    /\ i' = 0
    /\ written' = {}
    /\ pc' = "selected"
    /\ UNCHANGED <<all_data, classes_to_schedule_template, population_size, generations,
                   population, gen, p2_is_p1, progress_calls, highest_scored, class_to_place,
                   saved_timetables, loaded, fitness_calculator,
                   perform_smart_mutation>>

\* Lines 433-447: one pair of parents: crossover, the mutation of both
\* children, and the children appended.
AliasMatePair ==
    /\ pc = "selected"
    /\ i < Len(selected_parents)
    /\ \E pos \in SecondParentPositions :
       \E crossover_point \in {0} \cup CrossoverPoints(classes_to_schedule_template) :
          LET crossed == HeapCrossover(heap, selected_parents[i + 1], selected_parents[pos],
                                      crossover_point)
          IN  /\ p2_is_p1' = (pos = i + 1)
              /\ heap' = crossed.heap
              /\ \E m1 \in HeapMutations(crossed.heap, crossed.child1),
                    m2 \in HeapMutations(crossed.heap, crossed.child2) :
                    written' = crossed.written \cup m1 \cup m2
              /\ next_population' =
                    IF Len(next_population) + 1 < population_size
                    THEN next_population \o <<crossed.child1, crossed.child2>>
                    ELSE Append(next_population, crossed.child1)
    /\ i' = i + 2
    /\ UNCHANGED <<pc, all_data, classes_to_schedule_template, population_size, generations,
                   population, best_individual, gen, selected_parents, progress_calls,
                   highest_scored, class_to_place, saved_timetables, loaded,
                   fitness_calculator,
                   perform_smart_mutation>>

\* Lines 449-457: the children replace the population; the loop goes on
\* or is left.
AliasEndGeneration ==
    /\ pc = "selected"
    /\ i >= Len(selected_parents)
    /\ population' = next_population
    /\ gen' = gen + 1
    /\ pc' \in {"loop", "break"}
    /\ selected_parents' = << >>
    /\ next_population' = << >>
    /\ i' = 0
    /\ p2_is_p1' = FALSE
    /\ written' = {}
    /\ UNCHANGED <<all_data, classes_to_schedule_template, population_size, generations,
                   best_individual, progress_calls, highest_scored, class_to_place,
                   saved_timetables, loaded, fitness_calculator, heap,
                   perform_smart_mutation>>

\* Lines 459-460.
AliasReturn ==
    /\ \/ pc = "loop" /\ gen >= generations
       \/ pc = "break"
    /\ pc' = "done"
    /\ UNCHANGED <<all_data, classes_to_schedule_template, population_size, generations,
                   population, best_individual, gen, selected_parents, next_population, i,
                   p2_is_p1, progress_calls, highest_scored, class_to_place,
                   saved_timetables, loaded, fitness_calculator, heap, written,
                   perform_smart_mutation>>

AliasNext ==
    \/ AliasInitializePopulation
    \/ AliasBeginGeneration
    \/ AliasMatePair
    \/ AliasEndGeneration
    \/ AliasReturn

AliasSpec == AliasInit /\ [][AliasNext]_vars

\* The chromosome objects a generation step must leave alone, and their
\* gene objects.
Kept == Range(population) \cup Range(selected_parents)
            \cup (IF best_individual = None THEN {} ELSE {best_individual})
KeptGenes == UNION {Range(heap[c]) : c \in Kept}

\* No two positions of the list hold one chromosome object or chromosome
\* objects with a gene object in common.
NoSharing(list) ==
    \A a, b \in DOMAIN list :
        a # b => /\ list[a] # list[b]
                 /\ Range(heap[list[a]]) \cap Range(heap[list[b]]) = {}

\* C21: copy on emit: no two slots of the population (or of the next one
\* being filled) hold the same chromosome object or share a gene object,
\* and crossover and mutation assign only genes of the children they have
\* just copied: no gene of a parent, of the population or of
\* best_individual is assigned by a generation step.
C21_CopyOnEmit ==
    /\ NoSharing(population)
    /\ NoSharing(next_population)
    /\ written \cap KeptGenes = {}

\* C21 witness: in the first generation best_individual is still a member of
\* the population, it was selected twice and mated with itself, and the
\* children were recombined and assigned.
C21_Witness ==
    /\ gen = 0
    /\ pc = "selected"
    /\ i = 2
    /\ selected_parents[1] = best_individual
    /\ selected_parents[2] = best_individual
    /\ written # {}
    /\ best_individual \in Range(population)

(***************************************************************************)
(* Collision accounting (EvalSpec).                                        *)
(***************************************************************************)
\* The genes that share a (day, period) with an earlier gene of the same
\* semester.
CollidingInSemester(classes) ==
    {g \in DOMAIN classes :
        /\ ~IsUnplaced(classes[g])
        /\ \E h \in 1..(g - 1) :
              /\ ~IsUnplaced(classes[h])
              /\ classes[h].semester_id = classes[g].semester_id
              /\ SlotsOf(classes[h]) \cap SlotsOf(classes[g]) # {}}

\* The genes calculate charged H1.
ChargedH1(c) == {e.gene : e \in {x \in PenaltiesOf(c) : x.code = "H1"}}

\* C22: the genes charged H1 are exactly the genes that share a (day, period)
\* with any earlier gene of the same semester, each charged 1000 once, so
\* the H1 total is 1000 times the number of such genes.
C22_H1ChargesEveryCollidingGene ==
    pc = "scored" =>
        LET c == population[1]
            h1 == {x \in PenaltiesOf(c) : x.code = "H1"}
        IN  /\ ChargedH1(c) = CollidingInSemester(c.scheduled_classes)
            /\ SumAmounts(h1) =
                   PENALTY_HARD_COLLISION * Cardinality(CollidingInSemester(c.scheduled_classes))

(***************************************************************************)
(* MateSpec: one pair of parents through crossover and mutation (run,      *)
(* lines 431-442). The children are kept in next_population from the       *)
(* moment crossover returns them; mutation changes them in place.          *)
(***************************************************************************)
MateInstances == {InstanceFullDays, InstanceTwoLongTheory}

MateInit ==
    /\ pc = "selected"
    /\ \E inst \in MateInstances :
          /\ all_data = inst.all_data
          /\ classes_to_schedule_template = inst.classes
    /\ population_size = 2
    /\ generations = 1
    /\ population \in [1..population_size ->
                           ScoredIndividuals(all_data, classes_to_schedule_template)]
    /\ selected_parents = population
    /\ best_individual = None
    /\ gen = 0
    /\ next_population = << >>
    /\ i = 0
    /\ p2_is_p1 = FALSE
    /\ progress_calls = << >>
    /\ highest_scored = << >>
    /\ class_to_place = 0
    /\ saved_timetables = << >>
    /\ loaded = << >>
    /\ fitness_calculator = << >>
    /\ heap = << >>
    /\ written = {}
    /\ perform_smart_mutation = FALSE

\* child1, child2 = self.crossover(p1, p2) (line 439).
MateCrossover ==
    /\ pc = "selected"
    /\ \/ \E crossover_point \in CrossoverPoints(classes_to_schedule_template) :
             next_population' = CrossoverAt(selected_parents[1], selected_parents[2],
                                            classes_to_schedule_template, crossover_point)
       \/ next_population' = CrossoverCopies(selected_parents[1], selected_parents[2])
    /\ pc' = "crossed"
    /\ UNCHANGED <<all_data, classes_to_schedule_template, population_size, generations,
                   population, best_individual, gen, selected_parents,
                   i, p2_is_p1, progress_calls, highest_scored, class_to_place,
                   saved_timetables, loaded,
                   fitness_calculator,
                   heap, written,
                   perform_smart_mutation>>

\* self.mutation(child) on one of the two children (lines 441-442): the
\* smart mode is drawn once (line 392), then the genes are gone through in
\* order.
MateMutation ==
    /\ pc = "crossed"
    /\ \E k \in DOMAIN next_population : \E smart \in BOOLEAN :
       \E classes \in MutateFrom(all_data, next_population[k].scheduled_classes, 1, smart) :
          /\ next_population' = [next_population EXCEPT ![k].scheduled_classes = classes]
          /\ perform_smart_mutation' = smart
    /\ pc' = "mutated"
    /\ UNCHANGED <<all_data, classes_to_schedule_template, population_size, generations,
                   population, best_individual, gen, selected_parents,
                   i, p2_is_p1, progress_calls, highest_scored, class_to_place,
                   saved_timetables, loaded,
                   fitness_calculator,
                   heap, written>>

MateNext == MateCrossover \/ MateMutation

MateSpec == MateInit /\ [][MateNext]_vars

(***************************************************************************)
(* Claims about crossover and mutation (MateSpec).                         *)
(***************************************************************************)
PlacementOf(sc) == <<sc.day, sc.start_period>>

\* The children are the parents cut at k: child1 has parent1's placements
\* at the 0-based indices below k and parent2's from k on, child2 the
\* reverse.
RecombinedAt(k) ==
    \A n \in DOMAIN classes_to_schedule_template :
        IF n - 1 < k
        THEN /\ next_population[1].scheduled_classes[n] = selected_parents[1].scheduled_classes[n]
             /\ next_population[2].scheduled_classes[n] = selected_parents[2].scheduled_classes[n]
        ELSE /\ next_population[1].scheduled_classes[n] =
                    Place(selected_parents[1].scheduled_classes, n,
                          PlacementOf(selected_parents[2].scheduled_classes[n]))[n]
             /\ next_population[2].scheduled_classes[n] =
                    Place(selected_parents[2].scheduled_classes, n,
                          PlacementOf(selected_parents[1].scheduled_classes[n]))[n]

\* The children have the genes of their parents, placements included.
ExactCopies ==
    /\ next_population[1].scheduled_classes = selected_parents[1].scheduled_classes
    /\ next_population[2].scheduled_classes = selected_parents[2].scheduled_classes

\* C23: one-point crossover: the children are exact copies of the parents,
\* or there is a cut k in 1..L-1 such that child1 has parent1's placement at
\* the indices below k and parent2's from k on, and child2 the reverse; then
\* each child has its first placement from one parent and its last from the
\* other, and at every index the two children hold the two placements of
\* the parents.
C23_OnePointCrossover ==
    pc = "crossed" =>
        LET L == Len(classes_to_schedule_template)
            recombined == \E k \in 1..(L - 1) : RecombinedAt(k)
        IN  /\ recombined \/ ExactCopies
            /\ (recombined /\ ~ExactCopies) =>
                  /\ PlacementOf(next_population[1].scheduled_classes[1]) =
                        PlacementOf(selected_parents[1].scheduled_classes[1])
                  /\ PlacementOf(next_population[1].scheduled_classes[L]) =
                        PlacementOf(selected_parents[2].scheduled_classes[L])
                  /\ PlacementOf(next_population[2].scheduled_classes[1]) =
                        PlacementOf(selected_parents[2].scheduled_classes[1])
                  /\ PlacementOf(next_population[2].scheduled_classes[L]) =
                        PlacementOf(selected_parents[1].scheduled_classes[L])
            /\ \A n \in 1..L :
                  {PlacementOf(next_population[1].scheduled_classes[n]),
                   PlacementOf(next_population[2].scheduled_classes[n])} =
                  {PlacementOf(selected_parents[1].scheduled_classes[n]),
                   PlacementOf(selected_parents[2].scheduled_classes[n])}

\* C23 witness: two parents of three genes that differ at every index were
\* recombined with the cut at 1: child1 keeps parent1's first placement and
\* has parent2's second and third.
C23_Witness ==
    /\ pc = "crossed"
    /\ Len(classes_to_schedule_template) = 3
    /\ \A n \in 1..3 :
          PlacementOf(selected_parents[1].scheduled_classes[n]) #
          PlacementOf(selected_parents[2].scheduled_classes[n])
    /\ RecombinedAt(1)

\* What one call of mutation may make of a list of genes: every gene keeps
\* its placement or is re-placed; in smart mode a re-placed gene is at a
\* possible slot of the chromosome as it was when the pass reached the gene
\* (the genes before it as they are now, the others as they were), or at a
\* random timeslot of its type when no slot was possible; otherwise at a
\* random timeslot of its type.
MutatedAsStated(before, now, smart) ==
    /\ DOMAIN now = DOMAIN before
    /\ \A g \in DOMAIN before :
          LET current == [n \in DOMAIN before |-> IF n < g THEN now[n] ELSE before[n]]
              possible == PossibleSlots(all_data, current, g)
              allowed == IF smart /\ possible # {}
                         THEN possible
                         ELSE RandomTimeslots(before[g].periods_count, before[g].is_lab)
          IN  \/ now[g] = before[g]
              \/ \E slot \in allowed : now[g] = Place(before, g, slot)[g]

\* C24: a call of mutation draws the smart mode once and changes one
\* chromosome only: each of its genes keeps its placement or, if selected,
\* takes the find_empty_slot result computed on the chromosome's current
\* state (a random timeslot of its type only when no slot is found) in
\* smart mode, and a random timeslot of its type otherwise.
C24_MutationAsStated ==
    [][(pc = "crossed" /\ pc' = "mutated") =>
         \E k \in DOMAIN next_population :
            /\ \A n \in DOMAIN next_population \ {k} : next_population'[n] = next_population[n]
            /\ MutatedAsStated(next_population[k].scheduled_classes,
                               next_population'[k].scheduled_classes,
                               perform_smart_mutation')]_vars

\* The genes of a child whose placement is that of neither parent at the
\* same index: mutation has re-placed them.
ReplacedGenes(k) ==
    {g \in DOMAIN classes_to_schedule_template :
        PlacementOf(next_population[k].scheduled_classes[g]) \notin
            {PlacementOf(selected_parents[1].scheduled_classes[g]),
             PlacementOf(selected_parents[2].scheduled_classes[g])}}

\* C24 witness: a smart mutation re-placed two genes of one child, the
\* later one at a slot that is possible beside the earlier one's new
\* placement, and left the third gene alone.
C24_Witness ==
    /\ pc = "mutated"
    /\ perform_smart_mutation
    /\ \E k \in DOMAIN next_population :
          /\ Cardinality(ReplacedGenes(k)) = 2
          /\ \E g \in ReplacedGenes(k) :
                /\ \E h \in ReplacedGenes(k) : h < g
                /\ PlacementOf(next_population[k].scheduled_classes[g]) \in
                      PossibleSlots(all_data, next_population[k].scheduled_classes, g)

(***************************************************************************)
(* Claims about selection and the pairing loop (Spec).                     *)
(***************************************************************************)
\* A chromosome that has the highest fitness of some pool of
\* TOURNAMENT_SIZE draws from the population, the same member allowed more
\* than once.
WinsPoolWithReplacement(c, pop) ==
    \E pool \in [1..TOURNAMENT_SIZE -> DOMAIN pop] :
        /\ \E n \in DOMAIN pool : pop[pool[n]] = c
        /\ \A n \in DOMAIN pool : pop[pool[n]].fitness <= c.fitness

\* C25: whenever a generation begins, selection returns population_size
\* parents, each a member of the population and the fittest of a pool of
\* tournament_size members drawn with replacement (so a population smaller
\* than tournament_size is selected from as well), and the placements of the
\* population stay as they were.
C25_SelectionReturnsParents ==
    [][(pc = "loop" /\ gen < generations) =>
          /\ pc' = "selected"
          /\ Len(selected_parents') = population_size
          /\ \A n \in DOMAIN selected_parents' :
                /\ selected_parents'[n] \in Range(population')
                /\ WinsPoolWithReplacement(selected_parents'[n], population')
          /\ [n \in DOMAIN population' |-> population'[n].scheduled_classes] =
                [n \in DOMAIN population |-> population[n].scheduled_classes]]_vars

\* C26: at the start of every generation (and when the loop is left) the
\* population holds exactly population_size chromosomes, for even and for
\* odd sizes, and the fitness cached in each is the evaluator's score of it.
C26_PopulationSizeConstant ==
    pc \in {"loop", "break"} =>
        /\ Len(population) = population_size
        /\ \A n \in DOMAIN population : population[n].fitness = Score(population[n])

\* C26 witness: a population of odd size has been replaced by its children
\* and the next generation is about to begin.
C26_Witness ==
    /\ pc = "loop"
    /\ gen >= 1
    /\ gen < generations
    /\ population_size % 2 = 1
    /\ Len(population) = population_size

\* C27: once the last parent of an odd list has been mated, its partner
\* came from an earlier position of the list, not from the last position
\* itself.
C27_LastParentPairsWithEarlier ==
    (/\ pc = "pairs"
     /\ Len(selected_parents) % 2 = 1
     /\ i > Len(selected_parents)) => ~p2_is_p1

(***************************************************************************)
(* find_empty_slot against the set of valid slots (EvalSpec).              *)
(***************************************************************************)
\* The (day, period) pairs a gene of the shape of sc would occupy from slot.
SpanAt(sc, slot) == {<<slot[1], p>> : p \in slot[2]..(slot[2] + sc.periods_count - 1)}

\* The set V of the gene at index g: the (day, start_period) whose span
\* ends within the periods of the gene's type, shares no (day, period) with
\* any other placed gene of the same semester or with one of the gene's
\* faculty, and has no period blocked for one of the gene's faculty.
ValidSlots(classes, g) ==
    {slot \in DAYS \X (1..PERIODS_PER_DAY) :
        /\ slot[2] + classes[g].periods_count - 1 <= (IF classes[g].is_lab THEN 6 ELSE 4)
        /\ \A h \in DOMAIN classes \ {g} :
              (/\ ~IsUnplaced(classes[h])
               /\ \/ classes[h].semester_id = classes[g].semester_id
                  \/ Range(classes[h].faculty_ids) \cap Range(classes[g].faculty_ids) # {})
              => SlotsOf(classes[h]) \cap SpanAt(classes[g], slot) = {}
        /\ \A f \in Range(classes[g].faculty_ids) :
              faculty_blocked_slots(all_data, f) \cap SpanAt(classes[g], slot) = {}}

\* C28: a call of find_empty_slot on the gene g of a chromosome returns a
\* member of V, computed without g's own placement, or nothing exactly
\* when V is empty; the call changes no gene (the gene is at the returned
\* slot afterwards because mutation assigns it, the others are as before).
C28_FindEmptySlotReturnsValidSlot ==
    [][(pc = "chromosome" /\ pc' \in {"placed", "no_slot"}) =>
          LET classes == population[1].scheduled_classes
              g == class_to_place'
              V == ValidSlots(classes, g)
          IN  IF pc' = "placed"
              THEN \E slot \in V :
                      population'[1].scheduled_classes = Place(classes, g, slot)
              ELSE V = {} /\ population' = population]_vars

\* C28 witness: find_empty_slot returned a slot for a lab placed among two
\* placed theory sessions of its semester: it is on their day without
\* sharing a period with them.
C28_Witness ==
    /\ pc = "placed"
    /\ ScenarioIs(InstanceTheoryAndLab)
    /\ class_to_place = 3
    /\ \A k \in 1..3 : ~IsUnplaced(population[1].scheduled_classes[k])
    /\ \A k \in 1..2 :
          population[1].scheduled_classes[k].day = population[1].scheduled_classes[3].day
    /\ PlacementOf(population[1].scheduled_classes[3]) \in
          ValidSlots(population[1].scheduled_classes, 3)

HasCollision(classes) ==
    \E g, h \in DOMAIN classes :
        /\ g # h
        /\ \/ classes[g].semester_id = classes[h].semester_id
           \/ Range(classes[g].faculty_ids) \cap Range(classes[h].faculty_ids) # {}
        /\ SlotsOf(classes[g]) \cap SlotsOf(classes[h]) # {}

\* C30: for every fully placed chromosome, calculate adds no H1 and no H2
\* penalty if and only if no two distinct genes with a common semester or
\* faculty occupy a common (day, period); a chromosome of a single gene is
\* never charged a collision.
C30_CollisionPenaltyIffCollision ==
    (/\ pc = "scored"
     /\ \A k \in DOMAIN population[1].scheduled_classes :
           ~IsUnplaced(population[1].scheduled_classes[k])) =>
        ((CodesOf(population[1]) \cap {"H1", "H2"} = {})
            <=> ~HasCollision(population[1].scheduled_classes))

=============================================================================
